---- MODULE Spec2Model ----
(***************************************************************************)
(* Contribution-graph renderer of atuin-abacus (svg.ts).                   *)
(*                                                                         *)
(* generateContributionGraph(data, options) is a pure function of the      *)
(* series, the options and the clock.  The state holds one call: its       *)
(* arguments, the clock reading, and every intermediate value the call     *)
(* builds (processedData, intensityMap, cells, dims, svg), and the calls   *)
(* finished before it (history).                                           *)
(*                                                                         *)
(* The HTTP application (app.ts) and parsePeriod (utils.ts) follow the     *)
(* renderer.  Their state is one request on its way through the            *)
(* middleware chain, the response, the database calls made for it, and     *)
(* the response cache.  Header and query values are sequences of           *)
(* characters.                                                             *)
(*                                                                         *)
(* Encodings                                                               *)
(*   date string "YYYY-MM-DD"  : <<year, month, day>>                      *)
(*   Date object               : an instant, in whole hours since          *)
(*                               1970-01-01T00:00Z                         *)
(*   output document           : the sequence of its elements              *)
(*   log10(count + 1)          : count + 1 (same order; the code only      *)
(*                               compares these values)                    *)
(*   -Infinity                 : the sentinel NegInfinity, absorbing in    *)
(*                               JsAdd                                     *)
(*                                                                         *)
(* Date methods that read local time take the process's time zone as a     *)
(* parameter.  Spec runs the process in UTC, as scripts/test.sh does.      *)
(***************************************************************************)
EXTENDS Integers, Sequences, FiniteSets, TLC

VARIABLES
    pc,             \* "call" before generateContributionGraph runs, "returned" after
    data,           \* argument: DailyCommandCount[]
    options,        \* argument: SvgOptions, a record of the fields given
    now,            \* what new Date() reads (used on the empty-data branch only)
    tz,             \* the process's local time zone
    processedData,  \* data, or the synthesized year
    intensityMap,   \* date string -> bucket
    cells,          \* Cell[]
    dims,           \* Dimensions
    svg,            \* the returned document
    history,        \* the finished calls before this one: arguments, clock, result
    request,        \* the HTTP request: method, path, query, headers
    stage,          \* where the request is in the chain of createApp
    timezone,       \* c.get('timezone'), or the timezone argument of parsePeriod
    parsed,         \* what the last parsePeriod call did
    dbCalls,        \* calls of the DbFunctions made for the request
    response,       \* the response of the request
    cacheStore,     \* the entries of the cache 'atuin-abacus'
    served,         \* requests answered so far
    calls,          \* the calls of the functions of db.ts made so far
    pool,           \* the connection pool of db.ts
    closing,        \* shutdown handlers that await closePool()
    exit            \* <<>> while the process runs, else how it exited

renderVars == <<pc, data, options, now, tz, processedData, intensityMap, cells, dims, svg, history>>

appVars == <<request, stage, timezone, parsed, dbCalls, response, cacheStore, served>>

poolVars == <<calls, pool, closing, exit>>

vars == <<pc, data, options, now, tz, processedData, intensityMap, cells, dims, svg, history,
          request, stage, timezone, parsed, dbCalls, response, cacheStore, served,
          calls, pool, closing, exit>>

----------------------------------------------------------------------------
(* Calendar arithmetic behind the JavaScript Date object.                  *)

HoursPerDay == 24

\* days since 1970-01-01 of the proleptic Gregorian date y-m-d; d may lie
\* outside the month (MakeDay normalises it by plain day counting)
DaysFromCivil(y, m, d) ==
    LET yy  == IF m <= 2 THEN y - 1 ELSE y
        era == yy \div 400
        yoe == yy - era * 400
        mp  == IF m > 2 THEN m - 3 ELSE m + 9
        doy == (153 * mp + 2) \div 5 + d - 1
        doe == yoe * 365 + yoe \div 4 - yoe \div 100 + doy
    IN  era * 146097 + doe - 719468

\* inverse of DaysFromCivil on valid dates
CivilFromDays(z) ==
    LET zz  == z + 719468
        era == zz \div 146097
        doe == zz - era * 146097
        yoe == (doe - doe \div 1460 + doe \div 36524 - doe \div 146096) \div 365
        doy == doe - (365 * yoe + yoe \div 4 - yoe \div 100)
        mp  == (5 * doy + 2) \div 153
        d   == doy - (153 * mp + 2) \div 5 + 1
        m   == IF mp < 10 THEN mp + 3 ELSE mp - 9
        y   == yoe + era * 400 + (IF m <= 2 THEN 1 ELSE 0)
    IN  <<y, m, d>>

\* local time minus UTC, in hours, of a zone at instant t.  Los Angeles
\* keeps daylight time from the second Sunday of March, 02:00 PST, to the
\* first Sunday of November, 02:00 PDT; the year of t lies within one of
\* 1970 + t / (365.25 days)
TzOffset(zone, t) ==
    LET SundayOnOrAfter(day) == day + ((7 - ((day + 4) % 7)) % 7)
        DstStart(y) == SundayOnOrAfter(DaysFromCivil(y, 3, 8)) * HoursPerDay + 10
        DstEnd(y)   == SundayOnOrAfter(DaysFromCivil(y, 11, 1)) * HoursPerDay + 9
    IN  CASE zone = "UTC" -> 0
          [] zone = "Asia/Tokyo" -> 9
          [] zone = "America/Los_Angeles" ->
                IF \E y \in (1969 + t \div 8766)..(1971 + t \div 8766) :
                       DstStart(y) <= t /\ t < DstEnd(y)
                THEN -7
                ELSE -8
          [] OTHER -> 0

\* new Date("YYYY-MM-DD"): a date-only string is UTC midnight
ParseDate(s) == DaysFromCivil(s[1], s[2], s[3]) * HoursPerDay

\* date.toISOString().split('T')[0]: the UTC calendar date
ToISODate(t) == CivilFromDays(t \div HoursPerDay)

\* local wall-clock reading of instant t, in hours
LocalTime(zone, t) == t + TzOffset(zone, t)

\* the instant whose local wall-clock reading is lt
FromLocalTime(zone, lt) == lt - TzOffset(zone, lt)

LocalCivil(zone, t) == CivilFromDays(LocalTime(zone, t) \div HoursPerDay)

\* date.getDay(): 0 = Sunday .. 6 = Saturday (1970-01-01 was a Thursday)
GetDay(zone, t) == ((LocalTime(zone, t) \div HoursPerDay) + 4) % 7

\* date.getDate()
GetDate(zone, t) == LocalCivil(zone, t)[3]

\* date.getMonth(): 0 = January
GetMonth(zone, t) == LocalCivil(zone, t)[2] - 1

\* date.getFullYear()
GetFullYear(zone, t) == LocalCivil(zone, t)[1]

\* date.setDate(n): day n of the local month, local time of day kept
SetDate(zone, t, n) ==
    LET lt == LocalTime(zone, t)
        c  == CivilFromDays(lt \div HoursPerDay)
    IN  FromLocalTime(zone, DaysFromCivil(c[1], c[2], n) * HoursPerDay + (lt % HoursPerDay))

\* date.setFullYear(y): same local month and day in year y (Feb 29 rolls over)
SetFullYear(zone, t, y) ==
    LET lt == LocalTime(zone, t)
        c  == CivilFromDays(lt \div HoursPerDay)
    IN  FromLocalTime(zone, DaysFromCivil(y, c[2], c[3]) * HoursPerDay + (lt % HoursPerDay))

----------------------------------------------------------------------------
(* Small helpers standing for JavaScript built-ins.                        *)

\* Math.max(...[]) is -Infinity; the sentinel lies below every pixel value
NegInfinity == -1000000000

\* a + b on numbers that may be -Infinity
JsAdd(a, b) == IF a = NegInfinity \/ b = NegInfinity THEN NegInfinity ELSE a + b

\* Math.max(...S)
MathMax(S) == IF S = {} THEN NegInfinity ELSE CHOOSE v \in S : \A w \in S : w <= v

\* Math.min(...S) on a non-empty S
MathMin(S) == CHOOSE v \in S : \A w \in S : v <= w

\* new Map(pairs).get(key) / map.set in array order: the last entry with the key
LastIndexOfDate(d, dt) == MathMax({i \in 1..Len(d) : d[i].date = dt})

HasDate(d, dt) == \E i \in 1..Len(d) : d[i].date = dt

----------------------------------------------------------------------------
(* calculateIntensityMap                                                   *)

\* Math.log10(c + 1), kept as c + 1: log10 is strictly increasing and the
\* code only compares the results with <=
Log10Plus1(c) == c + 1

\* two ascending arrays merged into one: an element stands after the
\* elements of its own array before it and the elements of the other array
\* that are smaller (or, for the second array, equal)
MergeAscending(a, b) ==
    LET PlaceOfA(i) == i + Cardinality({j \in 1..Len(b) : b[j] < a[i]})
        PlaceOfB(j) == j + Cardinality({i \in 1..Len(a) : a[i] <= b[j]})
    IN  [k \in 1..(Len(a) + Len(b)) |->
            IF \E i \in 1..Len(a) : PlaceOfA(i) = k
            THEN a[CHOOSE i \in 1..Len(a) : PlaceOfA(i) = k]
            ELSE b[CHOOSE j \in 1..Len(b) : PlaceOfB(j) = k]]

\* array.sort((a, b) => a - b): the numbers in ascending order
RECURSIVE SortAscending(_)
SortAscending(s) ==
    IF Len(s) <= 1 THEN s
    ELSE MergeAscending(SortAscending(SubSeq(s, 1, Len(s) \div 2)),
                        SortAscending(SubSeq(s, Len(s) \div 2 + 1, Len(s))))

\* data.map(d => d.count).filter(c => c > 0).sort(...)
NonZeroCounts(d) ==
    SortAscending(SelectSeq([i \in 1..Len(d) |-> d[i].count], LAMBDA c : c > 0))

\* Math.ceil((percentile / 100) * n) in IEEE 754 doubles.  The double nearest
\* to percentile / 100 lies above it by above[1] / above[2] units of 2^-53
\* for 10, 40, 55, 80 and 88, and not above it for 25, 70, 94 and 98.  When
\* percentile * n / 100 is a whole number N, the product of the doubles lies
\* above N by n times that; it rounds to the double after N, and the ceiling
\* is N + 1, when that is more than half the distance between doubles at N,
\* which is 2^e units for 2^e <= N < 2^(e + 1).  A tie rounds to N.
CeilPercent(percentile, n) ==
    LET whole == (percentile * n) \div 100
        above == CASE percentile = 10 -> <<1, 20>>
                   [] percentile = 40 -> <<1, 5>>
                   [] percentile = 55 -> <<2, 5>>
                   [] percentile = 80 -> <<2, 5>>
                   [] percentile = 88 -> <<1, 25>>
                   [] OTHER -> <<0, 1>>
        half  == 2 ^ (CHOOSE e \in 0..24 : 2 ^ e <= whole /\ whole < 2 ^ (e + 1))
    IN  IF (percentile * n) % 100 = 0 /\ whole >= 1 /\ n * above[1] > above[2] * half
        THEN whole + 1
        ELSE (percentile * n + 99) \div 100

\* getPercentile: arr is 1-based here, so the 0-based index is shifted by one
GetPercentile(arr, percentile) ==
    LET index == CeilPercent(percentile, Len(arr)) - 1
    IN  arr[(IF index > 0 THEN index ELSE 0) + 1]

Thresholds(logCounts) ==
    [p10 |-> GetPercentile(logCounts, 10),
     p25 |-> GetPercentile(logCounts, 25),
     p40 |-> GetPercentile(logCounts, 40),
     p55 |-> GetPercentile(logCounts, 55),
     p70 |-> GetPercentile(logCounts, 70),
     p80 |-> GetPercentile(logCounts, 80),
     p88 |-> GetPercentile(logCounts, 88),
     p94 |-> GetPercentile(logCounts, 94),
     p98 |-> GetPercentile(logCounts, 98)]

BucketOf_Flipped(logCount, thresholds) ==
    IF logCount >= thresholds.p10 THEN 1
    ELSE IF logCount <= thresholds.p25 THEN 2
    ELSE IF logCount <= thresholds.p40 THEN 3
    ELSE IF logCount <= thresholds.p55 THEN 4
    ELSE IF logCount <= thresholds.p70 THEN 5
    ELSE IF logCount <= thresholds.p80 THEN 6
    ELSE IF logCount <= thresholds.p88 THEN 7
    ELSE IF logCount <= thresholds.p94 THEN 8
    ELSE 9

\* the if-chain over the thresholds
BucketOf(logCount, thresholds) ==
    IF logCount <= thresholds.p10 THEN 1
    ELSE IF logCount <= thresholds.p25 THEN 2
    ELSE IF logCount <= thresholds.p40 THEN 3
    ELSE IF logCount <= thresholds.p55 THEN 4
    ELSE IF logCount <= thresholds.p70 THEN 5
    ELSE IF logCount <= thresholds.p80 THEN 6
    ELSE IF logCount <= thresholds.p88 THEN 7
    ELSE IF logCount <= thresholds.p94 THEN 8
    ELSE 9

IntensityOf_NoZeroCase(count, thresholds) == BucketOf(Log10Plus1(count), thresholds)

\* the body of `data.forEach(item => ...)`
IntensityOf(count, thresholds) ==
    IF count = 0 THEN 0 ELSE BucketOf(Log10Plus1(count), thresholds)

\* the Map built by intensityMap.set in array order, as a function on its keys
CalculateIntensityMap(d) ==
    LET nonZeroCounts == NonZeroCounts(d)
        keys          == {d[i].date : i \in 1..Len(d)}
    IN  IF Len(nonZeroCounts) = 0
        THEN [dt \in keys |-> 0]
        ELSE LET logCounts  == [i \in 1..Len(nonZeroCounts) |-> Log10Plus1(nonZeroCounts[i])]
                 thresholds == Thresholds(logCounts)
             IN  [dt \in keys |-> IntensityOf(d[LastIndexOfDate(d, dt)].count, thresholds)]

----------------------------------------------------------------------------
(* generateCells                                                           *)

\* currentDate at the start of iteration i (1-based) of a loop that begins at
\* startDate and ends each iteration with
\* currentDate.setDate(currentDate.getDate() + 1): i - 1 local days later,
\* local time of day kept
DateAtIteration(zone, startDate, i) ==
    FromLocalTime(zone, LocalTime(zone, startDate) + (i - 1) * HoursPerDay)

\* how often `while (currentDate <= lastDate)` runs its body
Iterations(zone, startDate, lastDate) ==
    IF ~(startDate <= lastDate) THEN 0
    ELSE LET most == (lastDate - startDate) \div HoursPerDay + 2
         IN  Cardinality({i \in 1..most : DateAtIteration(zone, startDate, i) <= lastDate})

StartDate_NoAlign(zone, firstDate) == firstDate

\* the first Sunday on or before the first data point
StartDate(zone, firstDate) ==
    LET firstDayOfWeek == GetDay(zone, firstDate)
    IN  IF firstDayOfWeek # 0
        THEN SetDate(zone, firstDate, GetDate(zone, firstDate) - firstDayOfWeek)
        ELSE firstDate

EndsWeek_Sunday(dayOfWeek) == dayOfWeek = 0

\* `if (dayOfWeek === 6) weekIndex++`
EndsWeek(dayOfWeek) == dayOfWeek = 6

\* the array the while loop pushes: entry i is the cell of iteration i, and
\* weekIndex then holds the number of earlier iterations that saw a Saturday
GenerateCells(d, imap, cellSize, cellGap, zone) ==
    LET startDate == StartDate(zone, ParseDate(d[1].date))
        lastDate  == ParseDate(d[Len(d)].date)
        n         == Iterations(zone, startDate, lastDate)
        saturdays == {j \in 1..n : EndsWeek(GetDay(zone, DateAtIteration(zone, startDate, j)))}
        Cell(i) ==
            LET currentDate == DateAtIteration(zone, startDate, i)
                dateStr     == ToISODate(currentDate)
                dayOfWeek   == GetDay(zone, currentDate)
                weekIndex   == Cardinality({j \in saturdays : j < i})
            IN  [date      |-> dateStr,
                 count     |-> IF HasDate(d, dateStr)
                               THEN d[LastIndexOfDate(d, dateStr)].count ELSE 0,
                 x         |-> weekIndex * (cellSize + cellGap),
                 y         |-> dayOfWeek * (cellSize + cellGap),
                 intensity |-> IF dateStr \in DOMAIN imap THEN imap[dateStr] ELSE 0]
    IN  [i \in 1..n |-> Cell(i)]

----------------------------------------------------------------------------
(* calculateDimensions                                                     *)

CalculateDimensions_NoRightMargin(cs, cellSize, cellGap, showDayLabels, showMonthLabels, showFooter) ==
    LET maxX         == MathMax({cs[i].x : i \in 1..Len(cs)})
        leftMargin   == IF showDayLabels THEN 30 ELSE 10
        topMargin    == IF showMonthLabels THEN 20 ELSE 10
        bottomMargin == IF showFooter THEN 35 ELSE 10
        graphWidth   == JsAdd(maxX, cellSize + cellGap)
        graphHeight  == 7 * (cellSize + cellGap)
    IN  [width       |-> JsAdd(leftMargin, graphWidth),
         height      |-> topMargin + graphHeight + bottomMargin,
         leftMargin  |-> leftMargin,
         topMargin   |-> topMargin,
         graphWidth  |-> graphWidth,
         graphHeight |-> graphHeight]

CalculateDimensions(cs, cellSize, cellGap, showDayLabels, showMonthLabels, showFooter) ==
    LET maxX         == MathMax({cs[i].x : i \in 1..Len(cs)})
        leftMargin   == IF showDayLabels THEN 30 ELSE 10
        topMargin    == IF showMonthLabels THEN 20 ELSE 10
        rightMargin  == 10
        bottomMargin == IF showFooter THEN 35 ELSE 10
        graphWidth   == JsAdd(maxX, cellSize + cellGap)
        graphHeight  == 7 * (cellSize + cellGap)
    IN  [width       |-> JsAdd(JsAdd(leftMargin, graphWidth), rightMargin),
         height      |-> topMargin + graphHeight + bottomMargin,
         leftMargin  |-> leftMargin,
         topMargin   |-> topMargin,
         graphWidth  |-> graphWidth,
         graphHeight |-> graphHeight]

----------------------------------------------------------------------------
(* Output elements.  Pixel values that the code halves (cellSize / 2,      *)
(* cellGap / 2) are kept in half pixels, in fields and operators whose     *)
(* names end in 2; all other coordinates are whole pixels.                 *)

DAYS == <<"S", "M", "T", "W", "T", "F", "S">>

MONTHS == <<"jan", "feb", "mar", "apr", "may", "jun",
            "jul", "aug", "sep", "oct", "nov", "dec">>

\* body is the text with each interpolated number replaced by "#"; args are
\* those numbers
TextElement(x, y2, fill, fontSize, body, args) ==
    [tag |-> "text", x |-> x, y2 |-> y2, fill |-> fill, fontSize |-> fontSize,
     body |-> body, args |-> args]

RectElement_Square(x, y, size, fill) ==
    [tag |-> "rect", x |-> x, y |-> y, width |-> size, height |-> size, fill |-> fill]

\* the rect template of renderCells and of the legend of renderFooter
RectElement(x, y, size, fill) ==
    [tag |-> "rect", x |-> x, y |-> y, width |-> size, height |-> size, fill |-> fill, rx |-> 2]

RenderDayLabels_Weekdays(dm, cellSize, cellGap, textColor) ==
    [k \in 1..5 |->
        TextElement(dm.leftMargin - 18,
                    2 * (dm.topMargin + k * (cellSize + cellGap)) + cellSize,
                    textColor, 10, DAYS[k + 1], <<>>)]

\* renderDayLabels: y = topMargin + i * (cellSize + cellGap) + cellSize / 2
RenderDayLabels(dm, cellSize, cellGap, textColor) ==
    [k \in 1..Len(DAYS) |->
        TextElement(dm.leftMargin - 18,
                    2 * (dm.topMargin + (k - 1) * (cellSize + cellGap)) + cellSize,
                    textColor, 10, DAYS[k], <<>>)]

\* the candidates pushed by the forEach of renderMonthLabels: currentMonth is
\* -1 before the first cell and the previous cell's month afterwards
MonthPositions(cs, leftMargin, zone) ==
    LET Month(i) == GetMonth(zone, ParseDate(cs[i].date))
        starts   == SelectSeq([i \in 1..Len(cs) |-> i],
                              LAMBDA i : Month(i) # (IF i = 1 THEN -1 ELSE Month(i - 1)))
    IN  [k \in 1..Len(starts) |->
            [month |-> MONTHS[Month(starts[k]) + 1],
             x     |-> leftMargin + cs[starts[k]].x,
             day   |-> GetDate(zone, ParseDate(cs[starts[k]].date))]]

DropPartialFirstMonth_From7(monthPositions) ==
    IF Len(monthPositions) > 0 /\ monthPositions[1].day >= 7
    THEN Tail(monthPositions)
    ELSE monthPositions

DropPartialFirstMonth_Never(monthPositions) == monthPositions

\* the shift() of a first candidate that starts after the 7th
DropPartialFirstMonth(monthPositions) ==
    IF Len(monthPositions) > 0 /\ monthPositions[1].day > 7
    THEN Tail(monthPositions)
    ELSE monthPositions

RenderMonthLabels(cs, leftMargin, textColor, zone) ==
    LET monthPositions == DropPartialFirstMonth(MonthPositions(cs, leftMargin, zone))
    IN  [k \in 1..Len(monthPositions) |->
            TextElement(monthPositions[k].x, 2 * 12, textColor, 10, monthPositions[k].month, <<>>)]

----------------------------------------------------------------------------
(* createColorScale.  A color string is the sequence of its characters.    *)
(* chroma-js computes the nine scale colors from baseColor; the model      *)
(* names each by the base color and its place instead of computing it.     *)

\* a color string taken verbatim from the options
Literal(text) == [from |-> "option", text |-> text, place |-> "verbatim"]

\* chroma.scale([lightStart, baseColor]).mode('lab').correctLightness().colors(8)[index]
ScaleColor(baseColor, index) == [from |-> "colors", text |-> baseColor, place |-> index]

\* base.brighten(0.6).saturate(0.3).hex() and base.brighten(1.2).saturate(0.5).hex()
BrightColor(baseColor, which) == [from |-> "bright", text |-> baseColor, place |-> which]

GetColor_NoBackground(baseColor, cellBackground, intensity) ==
    IF intensity <= 7 THEN ScaleColor(baseColor, intensity)
    ELSE IF intensity = 8 THEN BrightColor(baseColor, 1)
    ELSE BrightColor(baseColor, 2)

\* the closure createColorScale returns, applied to intensity
GetColor(baseColor, cellBackground, intensity) ==
    IF intensity = 0 THEN Literal(cellBackground)
    ELSE IF intensity <= 7 THEN ScaleColor(baseColor, intensity)
    ELSE IF intensity = 8 THEN BrightColor(baseColor, 1)
    ELSE BrightColor(baseColor, 2)

\* renderCells
RenderCells(cs, leftMargin, topMargin, cellSize, baseColor, cellBackground) ==
    [i \in 1..Len(cs) |->
        RectElement(leftMargin + cs[i].x, topMargin + cs[i].y, cellSize,
                    GetColor(baseColor, cellBackground, cs[i].intensity))]

----------------------------------------------------------------------------
(* renderMonthSeparators                                                   *)

\* decimal digits of n >= 0, as characters
RECURSIVE Digits(_)
Digits(n) ==
    LET ch == <<"0", "1", "2", "3", "4", "5", "6", "7", "8", "9">>
    IN  IF n < 10 THEN <<ch[n + 1]>> ELSE Digits(n \div 10) \o <<ch[(n % 10) + 1]>>

\* UTF-16 code unit of the characters month keys are made of
CharCode(c) ==
    CASE c = "-" -> 45 [] c = "0" -> 48 [] c = "1" -> 49 [] c = "2" -> 50
      [] c = "3" -> 51 [] c = "4" -> 52 [] c = "5" -> 53 [] c = "6" -> 54
      [] c = "7" -> 55 [] c = "8" -> 56 [] c = "9" -> 57

\* `${date.getFullYear()}-${date.getMonth()}` of a key <<year, month>>
MonthKeyString(key) == Digits(key[1]) \o <<"-">> \o Digits(key[2])

\* a < b in the order Array.prototype.sort() uses without a comparator
StringLess(a, b) ==
    \/ /\ Len(a) < Len(b)
       /\ \A i \in 1..Len(a) : a[i] = b[i]
    \/ \E i \in 1..(IF Len(a) < Len(b) THEN Len(a) ELSE Len(b)) :
          /\ \A j \in 1..(i - 1) : a[j] = b[j]
          /\ CharCode(a[i]) < CharCode(b[i])

MonthKeyOf(zone, cell) ==
    LET date == ParseDate(cell.date)
    IN  <<GetFullYear(zone, date), GetMonth(zone, date)>>

\* Array.from(monthCells.keys()).sort()
SortedMonths(keys) ==
    [k \in 1..Cardinality(keys) |->
        CHOOSE key \in keys :
            Cardinality({o \in keys : StringLess(MonthKeyString(o), MonthKeyString(key))}) = k - 1]

\* textColor at 75% opacity
ReplaceFirst(str, pat, rep) ==
    LET hits == {i \in 1..(Len(str) - Len(pat) + 1) : SubSeq(str, i, i + Len(pat) - 1) = pat}
    IN  IF hits = {} THEN str
        ELSE LET i == CHOOSE h \in hits : \A o \in hits : h <= o
             IN  SubSeq(str, 1, i - 1) \o rep \o SubSeq(str, i + Len(pat), Len(str))

StrokeColor(textColor) ==
    IF Len(textColor) > 0 /\ textColor[1] = "#"
    THEN textColor \o <<"C", "0">>
    ELSE ReplaceFirst(ReplaceFirst(textColor, <<"r", "g", "b", "(">>, <<"r", "g", "b", "a", "(">>),
                      <<")">>, <<",", " ", "0", ".", "7", "5", ")">>)

\* targetX measured from the leftmost cell of the previous month in the row
TargetX2_LeftmostPrev(prevInRow, currInRow, leftMargin, cellSize, cellGap) ==
    IF prevInRow # {}
    THEN 2 * (leftMargin + MathMin({c.x : c \in prevInRow}) + cellSize) + cellGap
    ELSE 2 * (leftMargin + MathMin({c.x : c \in currInRow})) - cellGap

\* targetX of one row, in half pixels
TargetX2(prevInRow, currInRow, leftMargin, cellSize, cellGap) ==
    IF prevInRow # {} /\ currInRow # {}
    THEN 2 * (leftMargin + MathMax({c.x : c \in prevInRow}) + cellSize) + cellGap
    ELSE IF prevInRow # {}
    THEN 2 * (leftMargin + MathMax({c.x : c \in prevInRow}) + cellSize) + cellGap
    ELSE 2 * (leftMargin + MathMin({c.x : c \in currInRow})) - cellGap

\* the step drawn at the top edge of the row, not in the gap above it
StepSegments_AtRowTop(currentX2, targetX2, topMargin, y, cellGap) ==
    LET stepY2    == 2 * (topMargin + y)
        radius2   == 2 * 2 + cellGap
        direction == IF targetX2 > currentX2 THEN 1 ELSE -1
    IN  << <<"L", currentX2, stepY2 - radius2>>,
           <<"Q", currentX2, stepY2, currentX2 + direction * radius2, stepY2>>,
           <<"L", targetX2 - direction * radius2, stepY2>>,
           <<"Q", targetX2, stepY2, targetX2, stepY2 + radius2>> >>

\* the four segments of a horizontal step from currentX to targetX at row y
StepSegments(currentX2, targetX2, topMargin, y, cellGap) ==
    LET stepY2    == 2 * (topMargin + y) - cellGap
        radius2   == 2 * 2 + cellGap
        direction == IF targetX2 > currentX2 THEN 1 ELSE -1
    IN  << <<"L", currentX2, stepY2 - radius2>>,
           <<"Q", currentX2, stepY2, currentX2 + direction * radius2, stepY2>>,
           <<"L", targetX2 - direction * radius2, stepY2>>,
           <<"Q", targetX2, stepY2, targetX2, stepY2 + radius2>> >>

\* the `for (let row = 0; row < 7; row++)` loop; st.currentX is <<>> for null
RECURSIVE RowLoop(_, _, _, _, _, _, _, _)
RowLoop(row, st, prevMonthCells, currMonthCells, leftMargin, topMargin, cellSize, cellGap) ==
    IF ~(row < 7) THEN st
    ELSE LET y         == row * (cellSize + cellGap)
             prevInRow == {c \in prevMonthCells : c.y = y}
             currInRow == {c \in currMonthCells : c.y = y}
             targetX2  == TargetX2(prevInRow, currInRow, leftMargin, cellSize, cellGap)
             next      ==
                 IF prevInRow = {} /\ currInRow = {} THEN st
                 ELSE IF st.currentX = <<>>
                 THEN [path     |-> Append(st.path, <<"M", targetX2, 2 * topMargin>>),
                       currentX |-> <<targetX2>>]
                 ELSE IF st.currentX[1] # targetX2
                 THEN [path     |-> st.path \o StepSegments(st.currentX[1], targetX2,
                                                            topMargin, y, cellGap),
                       currentX |-> <<targetX2>>]
                 ELSE st
         IN  RowLoop(row + 1, next, prevMonthCells, currMonthCells,
                     leftMargin, topMargin, cellSize, cellGap)

\* the path element of one pair of months, or nothing when no row was processed
SeparatorPath(prevMonthCells, currMonthCells, leftMargin, topMargin, cellSize, cellGap, strokeColor) ==
    LET st == RowLoop(0, [path |-> <<>>, currentX |-> <<>>], prevMonthCells, currMonthCells,
                      leftMargin, topMargin, cellSize, cellGap)
        bottomY2 == 2 * (topMargin + 6 * (cellSize + cellGap) + cellSize)
    IN  IF st.currentX # <<>>
        THEN << [tag |-> "path", d |-> Append(st.path, <<"L", st.currentX[1], bottomY2>>),
                 stroke |-> strokeColor] >>
        ELSE <<>>

RECURSIVE Flatten(_)
Flatten(ss) == IF ss = <<>> THEN <<>> ELSE Head(ss) \o Flatten(Tail(ss))

RenderMonthSeparators(cs, leftMargin, topMargin, cellSize, cellGap, textColor, zone) ==
    LET monthKeys == {MonthKeyOf(zone, cs[i]) : i \in 1..Len(cs)}
        MonthCells(key) == {cs[i] : i \in {j \in 1..Len(cs) : MonthKeyOf(zone, cs[j]) = key}}
        sortedMonths == SortedMonths(monthKeys)
    IN  IF Len(cs) = 0 THEN <<>>
        ELSE IF Cardinality(monthKeys) < 2 THEN <<>>
        ELSE Flatten([i \in 1..(Len(sortedMonths) - 1) |->
                        SeparatorPath(MonthCells(sortedMonths[i]), MonthCells(sortedMonths[i + 1]),
                                      leftMargin, topMargin, cellSize, cellGap,
                                      StrokeColor(textColor))])

----------------------------------------------------------------------------
(* renderFooter                                                            *)

SumCounts_Days(d, lo, hi) == hi - lo + 1

\* data.reduce((sum, d) => sum + d.count, 0) over d[lo..hi]; the sum is taken
\* by halves, which for integer addition is the value of the left fold
RECURSIVE SumCounts(_, _, _)
SumCounts(d, lo, hi) ==
    IF lo > hi THEN 0
    ELSE IF lo = hi THEN d[lo].count
    ELSE LET mid == (lo + hi) \div 2
         IN  SumCounts(d, lo, mid) + SumCounts(d, mid + 1, hi)

RenderFooter(d, dm, textColor, baseColor, cellBackground) ==
    LET footerY          == dm.topMargin + dm.graphHeight + 18
        legendSquareSize == 10
        legendGap        == 3
        totalCommands    == SumCounts(d, 1, Len(d))
        totalDays        == Len(d)
        legendX          == dm.leftMargin
        intensities      == <<0, 1, 3, 5, 6, 7, 8, 9>>
        squaresStartX    == legendX + 35
        moreX            == squaresStartX + Len(intensities) * (legendSquareSize + legendGap) + 5
        statsX           == JsAdd(dm.width, -10)
    IN  << TextElement(legendX, 2 * footerY, textColor, 11, "Less", <<>>) >>
        \o [k \in 1..Len(intensities) |->
               RectElement(squaresStartX + (k - 1) * (legendSquareSize + legendGap),
                           footerY - legendSquareSize \div 2, legendSquareSize,
                           GetColor(baseColor, cellBackground, intensities[k]))]
        \o << TextElement(moreX, 2 * footerY, textColor, 11, "More", <<>>),
              TextElement(statsX, 2 * footerY, textColor, 11,
                          "# commands over # days", <<totalCommands, totalDays>>) >>

----------------------------------------------------------------------------
(* generateContributionGraph                                               *)

\* `const {name = fallback} = options`: options is a record of the fields given
Option(opts, name, fallback) == IF name \in DOMAIN opts THEN opts[name] ELSE fallback

DefaultBaseColor == <<"#", "f", "b", "7", "1", "8", "5">>
DefaultTextColor == <<"#", "5", "7", "6", "0", "6", "a">>
DefaultCellBackground == <<"#", "e", "b", "e", "d", "f", "0">>

SynthesizeYear_ExcludesToday(zone, clock) ==
    LET endDate   == clock
        startDate == SetFullYear(zone, endDate, GetFullYear(zone, endDate) - 1)
        n         == Iterations(zone, startDate, endDate) - 1
    IN  [i \in 1..n |-> [date  |-> ToISODate(DateAtIteration(zone, startDate, i)),
                         count |-> 0]]

\* the year of zero counts that stands in for an empty series
SynthesizeYear(zone, clock) ==
    LET endDate   == clock
        startDate == SetFullYear(zone, endDate, GetFullYear(zone, endDate) - 1)
        n         == Iterations(zone, startDate, endDate)
    IN  [i \in 1..n |-> [date  |-> ToISODate(DateAtIteration(zone, startDate, i)),
                         count |-> 0]]

ProcessedData_StampsToday(d, zone, clock) ==
    IF Len(d) = 0 THEN SynthesizeYear(zone, clock)
    ELSE Append(d, [date |-> ToISODate(clock), count |-> 0])

\* `let processedData = data; if (data.length === 0) { ... }`
ProcessedData(d, zone, clock) ==
    IF Len(d) = 0 THEN SynthesizeYear(zone, clock) ELSE d

SvgOpen(dm) == [tag |-> "svg", width |-> dm.width, height |-> dm.height]

SvgClose_Unclosed == [tag |-> "svg"]

\* `svg += '</svg>'`
SvgClose == [tag |-> "/svg"]

\* the document with the separators put before the cells
Assemble_SeparatorsFirst(pd, cs, dm, cellSize, cellGap, showMonthLabels, showDayLabels, showFooter, baseColor, textColor, cellBackground, zone) ==
    << SvgOpen(dm) >>
    \o (IF showDayLabels THEN RenderDayLabels(dm, cellSize, cellGap, textColor) ELSE <<>>)
    \o (IF showMonthLabels THEN RenderMonthLabels(cs, dm.leftMargin, textColor, zone) ELSE <<>>)
    \o RenderMonthSeparators(cs, dm.leftMargin, dm.topMargin, cellSize, cellGap, textColor, zone)
    \o RenderCells(cs, dm.leftMargin, dm.topMargin, cellSize, baseColor, cellBackground)
    \o (IF showFooter THEN RenderFooter(pd, dm, textColor, baseColor, cellBackground) ELSE <<>>)
    \o << SvgClose >>

\* the document for already computed cells and dimensions
Assemble(pd, cs, dm, cellSize, cellGap, showMonthLabels, showDayLabels, showFooter, baseColor, textColor, cellBackground, zone) ==
    << SvgOpen(dm) >>
    \o (IF showDayLabels THEN RenderDayLabels(dm, cellSize, cellGap, textColor) ELSE <<>>)
    \o (IF showMonthLabels THEN RenderMonthLabels(cs, dm.leftMargin, textColor, zone) ELSE <<>>)
    \o RenderCells(cs, dm.leftMargin, dm.topMargin, cellSize, baseColor, cellBackground)
    \o RenderMonthSeparators(cs, dm.leftMargin, dm.topMargin, cellSize, cellGap, textColor, zone)
    \o (IF showFooter THEN RenderFooter(pd, dm, textColor, baseColor, cellBackground) ELSE <<>>)
    \o << SvgClose >>

GenerateContributionGraph ==
    /\ pc = "call"
    /\ LET cellSize        == Option(options, "cellSize", 12)
           cellGap         == Option(options, "cellGap", 3)
           showMonthLabels == Option(options, "showMonthLabels", TRUE)
           showDayLabels   == Option(options, "showDayLabels", TRUE)
           showFooter      == Option(options, "showFooter", TRUE)
           baseColor       == Option(options, "baseColor", DefaultBaseColor)
           textColor       == Option(options, "textColor", DefaultTextColor)
           cellBackground  == Option(options, "cellBackground", DefaultCellBackground)
       IN  /\ processedData' = ProcessedData(data, tz, now)
           /\ intensityMap' = CalculateIntensityMap(processedData')
           /\ cells' = GenerateCells(processedData', intensityMap', cellSize, cellGap, tz)
           /\ dims' = CalculateDimensions(cells', cellSize, cellGap,
                                          showDayLabels, showMonthLabels, showFooter)
           /\ svg' = Assemble(processedData', cells', dims', cellSize, cellGap,
                              showMonthLabels, showDayLabels, showFooter,
                              baseColor, textColor, cellBackground, tz)
    /\ pc' = "returned"
    /\ UNCHANGED <<data, options, now, tz, history>>
    /\ UNCHANGED appVars
    /\ UNCHANGED poolVars

----------------------------------------------------------------------------
(* The application at rest: no request has arrived.                        *)

NoRequest == [method |-> "", path |-> "", query |-> [o \in {} |-> 0], headers |-> [o \in {} |-> 0]]

NoResponse == [status |-> 0, error |-> "", from |-> "", body |-> <<>>]

NotParsed == [kind |-> "none"]

AppIdle ==
    /\ request = NoRequest
    /\ stage = "idle"
    /\ timezone = <<>>
    /\ parsed = NotParsed
    /\ dbCalls = <<>>
    /\ response = NoResponse
    /\ cacheStore = {}
    /\ served = 0

\* new Pool(config.databaseUrl, 3, true)
PoolSize == 3

NewPool == [size |-> PoolSize, available |-> PoolSize, ended |-> FALSE]

\* no function of db.ts was called and no signal was delivered
PoolIdle ==
    /\ calls = <<>>
    /\ pool = NewPool
    /\ closing = 0
    /\ exit = <<>>

----------------------------------------------------------------------------
(* The calls explored.                                                     *)

\* longest series of freely ordered entries
MaxLen == 3

\* longest series of consecutive days with patterned counts
MaxRun == 20

\* dates the freely ordered series draw from: a Sunday at a year's end, an
\* early, a second-week and a mid-month day of January, and the first of
\* the next month
DateChoices ==
    { <<2023, 12, 31>>, <<2024, 1, 3>>, <<2024, 1, 10>>, <<2024, 1, 15>>, <<2024, 2, 1>> }

CountChoices == {0, 3}

\* series of 1..MaxLen entries with pairwise different dates, in any order
FreeSeries ==
    UNION { { s \in [1..n -> [date : DateChoices, count : CountChoices]] :
                \A i, j \in 1..n : i # j => s[i].date # s[j].date }
            : n \in 1..MaxLen }

\* the count of day i under pattern p
PatternCount(p, i) ==
    CASE p = "ramp"   -> i
      [] p = "gaps"   -> IF i % 7 = 0 THEN 0 ELSE i
      [] p = "flat"   -> 4
      [] p = "decade" -> <<0, 1, 10, 100, 1000>>[(i % 5) + 1]
      [] p = "fall"   -> 2 * (MaxRun + 2 - i)

Patterns == {"ramp", "gaps", "flat", "decade", "fall"}

\* n entries, every stride-th day from 2024-01-15 on, ascending
RunSeries ==
    { [i \in 1..n |-> [date  |-> CivilFromDays(DaysFromCivil(2024, 1, 15) + (i - 1) * stride),
                       count |-> PatternCount(p, i)]]
      : n \in 1..MaxRun, p \in Patterns, stride \in {1, 3} }

\* a hundred consecutive days from 2024-01-15 on, the counts rising 1..100
\* or falling 100..1
HundredDays ==
    { [i \in 1..100 |-> [date  |-> CivilFromDays(DaysFromCivil(2024, 1, 15) + (i - 1)),
                         count |-> IF rising THEN i ELSE 101 - i]]
      : rising \in BOOLEAN }

\* clock readings for the empty series: a leap day, the day after it, a
\* day whose year back spans a leap day, and two ordinary days
ClockChoices ==
    { DaysFromCivil(2024, 2, 29) * HoursPerDay + 12,
      DaysFromCivil(2024, 3, 1) * HoursPerDay,
      DaysFromCivil(2025, 1, 1) * HoursPerDay + 23,
      DaysFromCivil(2023, 6, 17) * HoursPerDay + 5,
      DaysFromCivil(2026, 10, 31) * HoursPerDay }

Green   == <<"#", "0", "0", "f", "f", "0", "0">>
Blue    == <<"#", "0", "0", "0", "0", "f", "f">>
RgbGray == <<"r", "g", "b", "(", "8", "7", ",", "9", "6", ",", "1", "0", "6", ")">>

\* a CSS color keyword
NamedGray == <<"g", "r", "a", "y">>

NoOptions == [o \in {} |-> 0]

GeometryChoices ==
    { NoOptions, [cellSize |-> 0, cellGap |-> 0], [cellSize |-> 15, cellGap |-> 4] }

FlagChoices ==
    { m @@ d @@ f :
        m \in {[showMonthLabels |-> TRUE], [showMonthLabels |-> FALSE]},
        d \in {NoOptions, [showDayLabels |-> FALSE]},
        f \in {NoOptions, [showFooter |-> FALSE]} }

ColorChoices ==
    { NoOptions, [baseColor |-> Green, textColor |-> RgbGray, cellBackground |-> Blue],
      [textColor |-> NamedGray] }

OptionChoices == { g @@ f @@ c : g \in GeometryChoices, f \in FlagChoices, c \in ColorChoices }

\* option sets every series is rendered with: none, the one of the test
\* "with all options", and a grid of zero-sized cells without footer
CoreOptions ==
    { NoOptions,
      [cellSize |-> 15, cellGap |-> 4, showMonthLabels |-> FALSE, showDayLabels |-> FALSE,
       baseColor |-> Green, textColor |-> RgbGray, cellBackground |-> Blue],
      [cellSize |-> 0, cellGap |-> 0, showFooter |-> FALSE] }

Entry(date, count) == [date |-> date, count |-> count]

\* series every option set is rendered with: the fixtures of svg.test.ts and
\* one series in descending order
CoreSeries ==
    { << Entry(<<2024, 1, 1>>, 10), Entry(<<2024, 1, 2>>, 20) >>,
      << Entry(<<2024, 1, 15>>, 10), Entry(<<2024, 1, 16>>, 20),
         Entry(<<2024, 2, 1>>, 15), Entry(<<2024, 2, 2>>, 25) >>,
      << Entry(<<2024, 1, 3>>, 10), Entry(<<2024, 1, 4>>, 20), Entry(<<2024, 2, 1>>, 15) >>,
      << Entry(<<2024, 1, 1>>, 0), Entry(<<2024, 1, 2>>, 1), Entry(<<2024, 1, 3>>, 10),
         Entry(<<2024, 1, 4>>, 100), Entry(<<2024, 1, 5>>, 1000) >>,
      << Entry(<<2024, 2, 1>>, 3), Entry(<<2023, 12, 31>>, 0) >> }

\* the clock reading paired with a non-empty series, which never reads it
ClockUnread == DaysFromCivil(2026, 11, 1) * HoursPerDay + 10

Init ==
    /\ pc = "call"
    /\ tz = "UTC"
    /\ \/ /\ data \in FreeSeries \cup RunSeries \cup HundredDays
          /\ options \in CoreOptions
          /\ now = ClockUnread
       \/ /\ data \in CoreSeries
          /\ options \in OptionChoices
          /\ now = ClockUnread
       \/ /\ data = <<>>
          /\ options \in CoreOptions
          /\ now \in ClockChoices
    /\ processedData = <<>>
    /\ intensityMap = <<>>
    /\ cells = <<>>
    /\ dims = [width |-> 0, height |-> 0, leftMargin |-> 0, topMargin |-> 0,
               graphWidth |-> 0, graphHeight |-> 0]
    /\ svg = <<>>
    /\ history = <<>>
    /\ AppIdle
    /\ PoolIdle

Next == GenerateContributionGraph

Spec == Init /\ [][Next]_vars

----------------------------------------------------------------------------
(* The same call in a process whose local time zone is not fixed to UTC.   *)

\* the local time zones of the process: UTC as scripts/test.sh sets it, a
\* zone east of UTC without daylight time, and a zone west of UTC with it
Zones == {"UTC", "Asia/Tokyo", "America/Los_Angeles"}

\* the series cover the start of daylight time on 2024-03-10 (HundredDays)
\* and ranges that lie within standard time
InitZones ==
    /\ pc = "call"
    /\ tz \in Zones
    /\ \/ /\ data \in RunSeries \cup HundredDays \cup CoreSeries
          /\ options \in {NoOptions, [cellSize |-> 15, cellGap |-> 4]}
          /\ now = ClockUnread
       \/ /\ data = <<>>
          /\ options = NoOptions
          /\ now \in ClockChoices
    /\ processedData = <<>>
    /\ intensityMap = <<>>
    /\ cells = <<>>
    /\ dims = [width |-> 0, height |-> 0, leftMargin |-> 0, topMargin |-> 0,
               graphWidth |-> 0, graphHeight |-> 0]
    /\ svg = <<>>
    /\ history = <<>>
    /\ AppIdle
    /\ PoolIdle

SpecZones == InitZones /\ [][Next]_vars

----------------------------------------------------------------------------
(* Several calls in one process: the /graph.svg handler of app.ts calls    *)
(* generateContributionGraph once per request.                             *)

\* calls in one behavior
MaxCalls == 3

\* hours that pass between two calls
HoursBetweenCalls == 25

\* the clock at the first call: the day after the last fixture date
ClockAtFirstCall == DaysFromCivil(2024, 2, 3) * HoursPerDay + 10

\* the same options with one field given another value
WithOption(opts, name, value) == [n \in DOMAIN opts \cup {name} |-> IF n = name THEN value ELSE opts[n]]

\* the options of the next call: the same, day labels switched, or cells
\* three pixels larger
NextOptions(opts) ==
    { opts,
      WithOption(opts, "showDayLabels", ~Option(opts, "showDayLabels", TRUE)),
      WithOption(opts, "cellSize", Option(opts, "cellSize", 12) + 3) }

\* the series of the next call: the same or the two-day fixture
NextSeries(d) == {d, << Entry(<<2024, 1, 1>>, 10), Entry(<<2024, 1, 2>>, 20) >>}

FinishedCall == [data |-> data, options |-> options, now |-> now, dims |-> dims, svg |-> svg]

\* the handler is entered again: the locals of the finished call are gone
CallAgain ==
    /\ pc = "returned"
    /\ Len(history) < MaxCalls - 1
    /\ history' = Append(history, FinishedCall)
    /\ data' \in NextSeries(data)
    /\ options' \in NextOptions(options)
    /\ now' = now + HoursBetweenCalls
    /\ processedData' = <<>>
    /\ intensityMap' = <<>>
    /\ cells' = <<>>
    /\ dims' = [width |-> 0, height |-> 0, leftMargin |-> 0, topMargin |-> 0,
                graphWidth |-> 0, graphHeight |-> 0]
    /\ svg' = <<>>
    /\ pc' = "call"
    /\ UNCHANGED tz
    /\ UNCHANGED appVars
    /\ UNCHANGED poolVars

InitCalls ==
    /\ pc = "call"
    /\ tz = "UTC"
    /\ data \in CoreSeries
    /\ options \in CoreOptions
    /\ now = ClockAtFirstCall
    /\ processedData = <<>>
    /\ intensityMap = <<>>
    /\ cells = <<>>
    /\ dims = [width |-> 0, height |-> 0, leftMargin |-> 0, topMargin |-> 0,
               graphWidth |-> 0, graphHeight |-> 0]
    /\ svg = <<>>
    /\ history = <<>>
    /\ AppIdle
    /\ PoolIdle

NextCalls == GenerateContributionGraph \/ CallAgain

SpecCalls == InitCalls /\ [][NextCalls]_vars

----------------------------------------------------------------------------
(* Characters, numbers and time zone names.                                *)

UpperCase == << "A", "B", "C", "D", "E", "F", "G", "H", "I", "J", "K", "L", "M",
                "N", "O", "P", "Q", "R", "S", "T", "U", "V", "W", "X", "Y", "Z" >>

LowerCase == << "a", "b", "c", "d", "e", "f", "g", "h", "i", "j", "k", "l", "m",
                "n", "o", "p", "q", "r", "s", "t", "u", "v", "w", "x", "y", "z" >>

\* String.prototype.toLowerCase, and the folding of the regular expression flag i
ToLowerChar(c) ==
    IF \E i \in 1..26 : UpperCase[i] = c
    THEN LowerCase[CHOOSE i \in 1..26 : UpperCase[i] = c]
    ELSE c

ToLowerCase(str) == [i \in 1..Len(str) |-> ToLowerChar(str[i])]

\* \d
IsDigit(c) == c \in {"0", "1", "2", "3", "4", "5", "6", "7", "8", "9"}

DigitValue(c) == CharCode(c) - 48

\* parseInt(digits, 10) of a string of digits (exact below 2^53)
RECURSIVE ParseInt(_)
ParseInt(digits) ==
    IF Len(digits) = 0 THEN 0
    ELSE 10 * ParseInt(SubSeq(digits, 1, Len(digits) - 1)) + DigitValue(digits[Len(digits)])

\* n >= 0 in at least width digits
PadStart(n, width) ==
    LET ds == Digits(n)
    IN  [i \in 1..(IF width > Len(ds) THEN width - Len(ds) ELSE 0) |-> "0"] \o ds

ZoneUTC == <<"U", "T", "C">>

ZoneLosAngeles ==
    << "A", "m", "e", "r", "i", "c", "a", "/", "L", "o", "s", "_", "A", "n", "g", "e", "l", "e", "s" >>

ZoneTokyo == <<"A", "s", "i", "a", "/", "T", "o", "k", "y", "o">>

\* the time zone identifiers of the runtime's time zone database
KnownZones == {ZoneUTC, ZoneLosAngeles, ZoneTokyo}

\* isValidTimezone: Intl.DateTimeFormat accepts an identifier in any letter case
IsValidTimezone(name) == \E z \in KnownZones : ToLowerCase(z) = ToLowerCase(name)

\* the zone an accepted identifier names
ZoneId(name) ==
    CASE ToLowerCase(name) = ToLowerCase(ZoneUTC) -> "UTC"
      [] ToLowerCase(name) = ToLowerCase(ZoneLosAngeles) -> "America/Los_Angeles"
      [] ToLowerCase(name) = ToLowerCase(ZoneTokyo) -> "Asia/Tokyo"

\* getSystemTimezone: Temporal.Now.timeZoneId() of the process
GetSystemTimezone(zone) ==
    CASE zone = "UTC" -> ZoneUTC
      [] zone = "America/Los_Angeles" -> ZoneLosAngeles
      [] zone = "Asia/Tokyo" -> ZoneTokyo

----------------------------------------------------------------------------
(* Temporal.PlainDate, as parsePeriod and isValidDate use it.              *)

\* the first and the last date a PlainDate can hold
MinPlainDate == <<-271821, 4, 19>>
MaxPlainDate == <<275760, 9, 13>>

ISODateWithinLimits(dt) ==
    /\ DaysFromCivil(MinPlainDate[1], MinPlainDate[2], MinPlainDate[3])
          <= DaysFromCivil(dt[1], dt[2], dt[3])
    /\ DaysFromCivil(dt[1], dt[2], dt[3])
          <= DaysFromCivil(MaxPlainDate[1], MaxPlainDate[2], MaxPlainDate[3])

ISODaysInMonth(y, m) == DaysFromCivil(y, m + 1, 1) - DaysFromCivil(y, m, 1)

\* overflow: 'constrain', the default of subtract
ConstrainDay(y, m, d) == <<y, m, IF d > ISODaysInMonth(y, m) THEN ISODaysInMonth(y, m) ELSE d>>

\* endDate.subtract({years: value})
SubtractYears(dt, value) == ConstrainDay(dt[1] - value, dt[2], dt[3])

\* endDate.subtract({months: value})
SubtractMonths(dt, value) ==
    LET months == dt[1] * 12 + (dt[2] - 1) - value
    IN  ConstrainDay(months \div 12, (months % 12) + 1, dt[3])

\* endDate.subtract({days: value})
SubtractDays(dt, value) == CivilFromDays(DaysFromCivil(dt[1], dt[2], dt[3]) - value)

\* PlainDate.prototype.toString: YYYY-MM-DD, the year with a sign and six
\* digits outside 0..9999
PlainDateToString(dt) ==
    (IF dt[1] < 0 THEN <<"-">> \o PadStart(-dt[1], 6)
     ELSE IF dt[1] > 9999 THEN <<"+">> \o PadStart(dt[1], 6)
     ELSE PadStart(dt[1], 4))
    \o <<"-">> \o PadStart(dt[2], 2) \o <<"-">> \o PadStart(dt[3], 2)

\* Temporal.Now.zonedDateTimeISO(timezone).toPlainDate()
TodayIn(name, clock) == LocalCivil(ZoneId(name), clock)

----------------------------------------------------------------------------
(* parsePeriod                                                             *)

\* /^(\d+)([ymd])$/i
MatchesPeriod(periodStr) ==
    /\ Len(periodStr) >= 2
    /\ \A i \in 1..(Len(periodStr) - 1) : IsDigit(periodStr[i])
    /\ ToLowerChar(periodStr[Len(periodStr)]) \in {"y", "m", "d"}

\* the switch on the unit: the start date, before its range is checked
SubtractUnit(endDate, unit, value) ==
    CASE unit = "y" -> SubtractYears(endDate, value)
      [] unit = "m" -> SubtractMonths(endDate, value)
      [] unit = "d" -> SubtractDays(endDate, value)

\* the period returned, or the RangeError that subtract throws when the
\* start date cannot be held by a PlainDate
PeriodBetween(startDate, endDate) ==
    IF ~ISODateWithinLimits(startDate) THEN [kind |-> "throw", error |-> "RangeError"]
    ELSE [kind      |-> "period",
          startDate |-> PlainDateToString(startDate),
          endDate   |-> PlainDateToString(endDate)]

\* parsePeriod after the match: value and unit are the two groups
PeriodEnding(endDate, unit, value) ==
    IF value <= 0 THEN [kind |-> "null"]
    ELSE PeriodBetween(SubtractUnit(endDate, unit, value), endDate)

\* the result of parsePeriod: null, a period, or the RangeError thrown
ParsePeriod(periodStr, name, clock) ==
    IF ~MatchesPeriod(periodStr) THEN [kind |-> "null"]
    ELSE PeriodEnding(TodayIn(name, clock),
                      ToLowerChar(periodStr[Len(periodStr)]),
                      ParseInt(SubSeq(periodStr, 1, Len(periodStr) - 1)))

\* longest run of digits in a period text explored
MaxDigits == 2

\* period texts: every text of up to MaxDigits digits from DigitChoices
\* followed by a unit or another character, texts without digits or
\* without unit, and values beyond what a PlainDate can reach
DigitChoices == {"0", "1", "3"}

UnitChoices == {"y", "m", "d", "Y", "M", "D", "x", "-"}

DigitRuns == UNION {[1..n -> DigitChoices] : n \in 1..MaxDigits}

PeriodTexts ==
    {ds \o <<u>> : ds \in DigitRuns, u \in UnitChoices}
    \cup { <<"y">>, <<"1">>, <<"-", "1", "d">>, <<"1", "d", " ">>, <<"a", "b", "c">>,
           <<"1", " ", "d">>, <<"1", "y", "1", "y">>,
           <<"3", "6", "5", "d">>, <<"4", "0", "0", "d">>, <<"1", "2", "0", "m">>,
           <<"3", "0", "0", "0", "0", "0", "y">>, <<"2", "7", "3", "0", "0", "0", "y">>,
           <<"4", "0", "0", "0", "0", "0", "0", "M">>, <<"2", "0", "0", "0", "0", "0", "0", "0", "0", "d">> }

\* clock readings of the parsePeriod calls: a leap day, the last day of a
\* 31-day month late in the UTC day, a new year's first hours, a summer day
PeriodClocks ==
    { DaysFromCivil(2024, 2, 29) * HoursPerDay + 12,
      DaysFromCivil(2025, 3, 31) * HoursPerDay + 20,
      DaysFromCivil(2026, 1, 1) * HoursPerDay + 3,
      DaysFromCivil(2025, 7, 31) * HoursPerDay + 6 }

RenderIdle ==
    /\ pc = "idle"
    /\ tz = "UTC"
    /\ data = <<>>
    /\ options = NoOptions
    /\ processedData = <<>>
    /\ intensityMap = <<>>
    /\ cells = <<>>
    /\ dims = [width |-> 0, height |-> 0, leftMargin |-> 0, topMargin |-> 0,
               graphWidth |-> 0, graphHeight |-> 0]
    /\ svg = <<>>
    /\ history = <<>>

\* one call parsePeriod(periodStr, timezone)
ParsePeriodCall ==
    /\ stage = "parsePeriod"
    /\ parsed' = ParsePeriod(request.query.period, timezone, now)
    /\ stage' = "parsed"
    /\ UNCHANGED <<request, timezone, dbCalls, response, cacheStore, served>>
    /\ UNCHANGED renderVars
    /\ UNCHANGED poolVars

InitPeriod ==
    /\ RenderIdle
    /\ now \in PeriodClocks
    /\ request \in {[NoRequest EXCEPT !.query = [period |-> text]] : text \in PeriodTexts}
    /\ timezone \in KnownZones \cup {ToLowerCase(ZoneTokyo)}
    /\ stage = "parsePeriod"
    /\ parsed = NotParsed
    /\ dbCalls = <<>>
    /\ response = NoResponse
    /\ cacheStore = {}
    /\ served = 0
    /\ PoolIdle

NextPeriod == ParsePeriodCall

SpecPeriod == InitPeriod /\ [][NextPeriod]_vars

----------------------------------------------------------------------------
(* app.ts: helpers of createApp                                            *)

\* /\s/ among the characters of the headers explored
IsSpace(c) == c = " "

\* the match of /timezone=(?:"([^"]+)"|([^\s,;]+))/i that starts at index i of
\* the header: the captured value in a one-element sequence, or <<>>
PreferMatchAt(h, i) ==
    LET key   == <<"t", "i", "m", "e", "z", "o", "n", "e", "=">>
        from  == i + Len(key)
        QuoteAt(j) == j <= Len(h) /\ h[j] = "\""
        \* end of the longest run of characters from index a on that satisfy Ok
        quoteRunEnd == CHOOSE e \in (from)..Len(h) :
                          /\ \A j \in (from + 1)..e : h[j] # "\""
                          /\ (e = Len(h) \/ h[e + 1] = "\"")
        Plain(c) == ~IsSpace(c) /\ c \notin {",", ";"}
        plainRunEnd == CHOOSE e \in (from - 1)..Len(h) :
                          /\ \A j \in from..e : Plain(h[j])
                          /\ (e = Len(h) \/ ~Plain(h[e + 1]))
    IN  IF ~(from - 1 <= Len(h) /\ ToLowerCase(SubSeq(h, i, from - 1)) = key) THEN <<>>
        ELSE IF QuoteAt(from) /\ quoteRunEnd > from /\ QuoteAt(quoteRunEnd + 1)
        THEN << SubSeq(h, from + 1, quoteRunEnd) >>
        ELSE IF plainRunEnd >= from
        THEN << SubSeq(h, from, plainRunEnd) >>
        ELSE <<>>

\* parseTimezoneFromPrefer without the quoted alternative of the pattern:
\* the quotes stay part of the value
ParseTimezoneFromPrefer_KeepsQuotes(preferHeader) ==
    LET hits  == {i \in 1..Len(preferHeader) : PreferMatchAt(preferHeader, i) # <<>>}
        first == CHOOSE i \in hits : \A j \in hits : i <= j
        value == PreferMatchAt(preferHeader, first)[1]
    IN  IF hits = {} THEN <<>>
        ELSE IF preferHeader[first + 9] = "\"" /\ value[1] # "\""
        THEN << <<"\"">> \o value \o <<"\"">> >>
        ELSE << value >>

\* parseTimezoneFromPrefer: the leftmost match, <<>> for null
ParseTimezoneFromPrefer(preferHeader) ==
    LET hits == {i \in 1..Len(preferHeader) : PreferMatchAt(preferHeader, i) # <<>>}
    IN  IF hits = {} THEN <<>>
        ELSE PreferMatchAt(preferHeader, CHOOSE i \in hits : \A j \in hits : i <= j)

\* isValidDate: /^\d{4}-\d{2}-\d{2}$/ and Temporal.PlainDate.from accepts it
IsValidDate(dateStr) ==
    /\ Len(dateStr) = 10
    /\ \A i \in {1, 2, 3, 4, 6, 7, 9, 10} : IsDigit(dateStr[i])
    /\ dateStr[5] = "-"
    /\ dateStr[8] = "-"
    /\ LET y == ParseInt(SubSeq(dateStr, 1, 4))
           m == ParseInt(SubSeq(dateStr, 6, 7))
           d == ParseInt(SubSeq(dateStr, 9, 10))
       IN  /\ m \in 1..12
           /\ d >= 1
           /\ d <= ISODaysInMonth(y, m)

\* the query parameters given non-empty: c.req.query(name), falsy when the
\* parameter is absent or the empty string
Truthy(query, name) == name \in DOMAIN query /\ query[name] # <<>>

\* validateDateParams with the end checked before the start
ValidateDateParams_EndFirst(query) ==
    IF Truthy(query, "end") /\ ~IsValidDate(query.end)
    THEN "Invalid end date format"
    ELSE IF Truthy(query, "start") /\ ~IsValidDate(query.start)
    THEN "Invalid start date format"
    ELSE IF Truthy(query, "start") /\ Truthy(query, "end") /\ StringLess(query.end, query.start)
    THEN "Start date must be before or equal to end date"
    ELSE ""

\* validateDateParams: the error message, "" for null
ValidateDateParams(query) ==
    IF Truthy(query, "start") /\ ~IsValidDate(query.start)
    THEN "Invalid start date format"
    ELSE IF Truthy(query, "end") /\ ~IsValidDate(query.end)
    THEN "Invalid end date format"
    ELSE IF Truthy(query, "start") /\ Truthy(query, "end") /\ StringLess(query.end, query.start)
    THEN "Start date must be before or equal to end date"
    ELSE ""

\* the Period {startDate, endDate, timezone}; a field is left out when undefined
PeriodOf(query, zoneName) ==
    [n \in {"timezone"} \cup {f \in {"startDate", "endDate"} :
                                 Truthy(query, IF f = "startDate" THEN "start" ELSE "end")}
        |-> CASE n = "timezone"  -> zoneName
              [] n = "startDate" -> query.start
              [] n = "endDate"   -> query.end]

\* getPeriodFromContext with a period parameter: what becomes of the result
\* of parsePeriod
FromParsePeriod(result, zoneName) ==
    CASE result.kind = "null" ->
            [kind |-> "HTTPException", status |-> 400, message |-> "Invalid period format"]
      [] result.kind = "throw" ->
            [kind |-> "Error", status |-> 500, message |-> result.error]
      [] result.kind = "period" ->
            [kind   |-> "period",
             period |-> [startDate |-> result.startDate, endDate |-> result.endDate,
                         timezone |-> zoneName]]

\* getPeriodFromContext without one: start and end, once validated
FromStartAndEnd(validationError, query, zoneName) ==
    IF validationError # ""
    THEN [kind |-> "HTTPException", status |-> 400, message |-> validationError]
    ELSE [kind |-> "period", period |-> PeriodOf(query, zoneName)]

\* getPeriodFromContext: the Period returned, or the exception thrown
GetPeriodFromContext(query, zoneName, clock) ==
    IF Truthy(query, "period")
    THEN FromParsePeriod(ParsePeriod(query.period, zoneName, clock), zoneName)
    ELSE FromStartAndEnd(ValidateDateParams(query), query, zoneName)

\* what parsePeriod did when getPeriodFromContext called it
ParsedBy(query, zoneName, clock) ==
    IF Truthy(query, "period") THEN ParsePeriod(query.period, zoneName, clock) ELSE NotParsed

\* app.onError: an HTTPException keeps its status and message, any other
\* error becomes 500
OnError(thrown) ==
    IF thrown.kind = "HTTPException"
    THEN [status |-> thrown.status, error |-> thrown.message, from |-> "onError", body |-> <<>>]
    ELSE [status |-> 500, error |-> "Internal server error", from |-> "onError", body |-> <<>>]

\* c.json(data): the rows a database function returns stand for themselves
JsonBody(fn, period) == << [tag |-> "json", fn |-> fn, period |-> period] >>

\* the key of the cache middleware is c.req.url
CacheKey(req) == [path |-> req.path, query |-> req.query]

CacheHit(store, req) == \E e \in store : e.key = CacheKey(req)

CacheMatch(store, req) == CHOOSE e \in store : e.key = CacheKey(req)

\* cache.put after next(), for an ok response only
CachePut(store, req, res) ==
    IF res.status = 200
    THEN {e \in store : e.key # CacheKey(req)} \cup {[key |-> CacheKey(req), body |-> res.body]}
    ELSE store

Routes == {"/", "/history", "/time-of-day", "/graph.svg"}

\* the rows of the database functions of app.test.ts
MockRows == << Entry(<<2024, 1, 1>>, 42), Entry(<<2024, 1, 2>>, 35) >>

----------------------------------------------------------------------------
(* app.ts: the middleware chain and the routes, one action per stage       *)

\* requests in one behavior
MaxRequests == 2

PreferLosAngeles == <<"t", "i", "m", "e", "z", "o", "n", "e", "=", "A", "m", "e", "r", "i", "c", "a", "/", "L", "o", "s", "_", "A", "n", "g", "e", "l", "e", "s">>
PreferTokyoQuoted == <<"r", "e", "t", "u", "r", "n", "=", "m", "i", "n", "i", "m", "a", "l", ";", " ", "t", "i", "m", "e", "z", "o", "n", "e", "=", "\"", "A", "s", "i", "a", "/", "T", "o", "k", "y", "o", "\"">>
PreferInvalid == <<"t", "i", "m", "e", "z", "o", "n", "e", "=", "I", "n", "v", "a", "l", "i", "d", "/", "T", "i", "m", "e", "z", "o", "n", "e">>
PreferNoToken == <<"r", "e", "t", "u", "r", "n", "=", "m", "i", "n", "i", "m", "a", "l">>
PreferUnclosedQuote == <<"t", "i", "m", "e", "z", "o", "n", "e", "=", "\"", "A", "s", "i", "a", "/", "T", "o", "k", "y", "o">>
PreferUpperUTC == <<"T", "i", "m", "e", "Z", "o", "n", "e", "=", "u", "t", "c", ",", " ", "w", "a", "i", "t", "=", "5">>

PreferChoices ==
    { PreferLosAngeles, PreferTokyoQuoted, PreferInvalid, PreferNoToken, PreferUnclosedQuote,
      PreferUpperUTC, <<>> }

HeaderChoices == {NoOptions} \cup {[prefer |-> h] : h \in PreferChoices}

Date20240101 == <<"2", "0", "2", "4", "-", "0", "1", "-", "0", "1">>
Date20241231 == <<"2", "0", "2", "4", "-", "1", "2", "-", "3", "1">>
Date20240230 == <<"2", "0", "2", "4", "-", "0", "2", "-", "3", "0">>
DateInvalid == <<"i", "n", "v", "a", "l", "i", "d", "-", "d", "a", "t", "e">>
Date20240131 == <<"2", "0", "2", "4", "-", "0", "1", "-", "3", "1">>
Date20241301 == <<"2", "0", "2", "4", "-", "1", "3", "-", "0", "1">>

StartChoices ==
    {NoOptions} \cup {[start |-> s] : s \in {Date20240101, Date20241231, Date20240230, DateInvalid, <<>>}}

EndChoices == {NoOptions} \cup {[end |-> s] : s \in {Date20240131, Date20241301, DateInvalid}}

PeriodChoices ==
    {NoOptions}
    \cup {[period |-> p] : p \in { <<"3", "0", "d">>, <<"1", "Y">>, <<"0", "d">>, <<"a", "b", "c">>,
                                   <<"3", "0", "0", "0", "0", "0", "y">>, <<>> }}

QueryChoices == {p @@ s @@ e : p \in PeriodChoices, s \in StartChoices, e \in EndChoices}

\* queries every path, method and header is tried with
CoreQueries ==
    { NoOptions, [period |-> <<"3", "0", "d">>], [start |-> DateInvalid],
      [start |-> Date20240101, end |-> Date20240131] }

\* the first request of a behavior
FirstRequests ==
    { [method |-> "GET", path |-> "/history", query |-> q, headers |-> NoOptions]
        : q \in QueryChoices }
    \cup { [method |-> m, path |-> p, query |-> q, headers |-> h]
             : m \in {"GET", "OPTIONS"}, p \in Routes \cup {"/other"},
               q \in CoreQueries, h \in HeaderChoices }

\* a later request: the same URL again, under the same or another Prefer
\* header, or a preflight
FollowUps(req) ==
    { [req EXCEPT !.headers = h] : h \in {NoOptions, [prefer |-> PreferLosAngeles],
                                           [prefer |-> PreferInvalid]} }
    \cup { [req EXCEPT !.method = "OPTIONS"],
           [method |-> "GET", path |-> "/history", query |-> NoOptions, headers |-> NoOptions] }

\* the clock of the application runs
AppClock == DaysFromCivil(2024, 2, 29) * HoursPerDay + 12

\* a request arrives; nothing of the request before it is kept but the cache
Receive ==
    /\ stage \in {"idle", "done"}
    /\ served < MaxRequests
    /\ request' \in (IF served = 0 THEN FirstRequests ELSE FollowUps(request))
    /\ served' = served + 1
    /\ stage' = "cors"
    /\ timezone' = <<>>
    /\ parsed' = NotParsed
    /\ dbCalls' = <<>>
    /\ response' = NoResponse
    /\ pc' = "idle"
    /\ data' = <<>>
    /\ options' = NoOptions
    /\ processedData' = <<>>
    /\ intensityMap' = <<>>
    /\ cells' = <<>>
    /\ dims' = [width |-> 0, height |-> 0, leftMargin |-> 0, topMargin |-> 0,
                graphWidth |-> 0, graphHeight |-> 0]
    /\ svg' = <<>>
    /\ UNCHANGED <<cacheStore, now, tz, history>>
    /\ UNCHANGED poolVars

\* app.use('*', cors()): a preflight is answered here, next() is not called
Cors ==
    /\ stage = "cors"
    /\ IF request.method = "OPTIONS"
       THEN /\ response' = [status |-> 204, error |-> "", from |-> "cors", body |-> <<>>]
            /\ stage' = "done"
       ELSE /\ response' = response
            /\ stage' = "timezone"
    /\ UNCHANGED <<request, timezone, parsed, dbCalls, cacheStore, served>>
    /\ UNCHANGED renderVars
    /\ UNCHANGED poolVars

\* the timezone middleware
TimezoneMiddleware ==
    /\ stage = "timezone"
    /\ LET given              == Truthy(request.headers, "prefer")
           requestedTimezone  == IF given THEN ParseTimezoneFromPrefer(request.headers.prefer)
                                 ELSE <<>>
       IN  IF ~given \/ requestedTimezone = <<>>
           THEN /\ timezone' = GetSystemTimezone(tz)
                /\ stage' = "route"
                /\ response' = response
           ELSE IF ~IsValidTimezone(requestedTimezone[1])
           THEN /\ response' = [status |-> 400, error |-> "Invalid timezone",
                                from |-> "timezone", body |-> <<>>]
                /\ stage' = "done"
                /\ timezone' = timezone
           ELSE /\ timezone' = requestedTimezone[1]
                /\ stage' = "route"
                /\ response' = response
    /\ UNCHANGED <<request, parsed, dbCalls, cacheStore, served>>
    /\ UNCHANGED renderVars
    /\ UNCHANGED poolVars

\* app.notFound: no route for the method and path
NotFound ==
    /\ stage = "route"
    /\ ~(request.method = "GET" /\ request.path \in Routes)
    /\ response' = [status |-> 404, error |-> "Not found", from |-> "notFound", body |-> <<>>]
    /\ stage' = "done"
    /\ UNCHANGED <<request, timezone, parsed, dbCalls, cacheStore, served>>
    /\ UNCHANGED renderVars
    /\ UNCHANGED poolVars

\* cacheMiddleware before next(): a stored response for the URL is returned
\* and the handler is not run
CacheMiddleware ==
    /\ stage = "route"
    /\ request.method = "GET"
    /\ request.path \in Routes
    /\ IF CacheHit(cacheStore, request)
       THEN /\ response' = [status |-> 200, error |-> "", from |-> "cache",
                            body |-> CacheMatch(cacheStore, request).body]
            /\ stage' = "done"
       ELSE /\ response' = response
            /\ stage' = "handler"
    /\ UNCHANGED <<request, timezone, parsed, dbCalls, cacheStore, served>>
    /\ UNCHANGED renderVars
    /\ UNCHANGED poolVars

\* a handler that answers with the rows of one database function, and the
\* cache middleware after next()
JsonRoute(path, fn) ==
    /\ stage = "handler"
    /\ request.path = path
    /\ \E got \in {GetPeriodFromContext(request.query, timezone, now)} :
           /\ parsed' = ParsedBy(request.query, timezone, now)
           /\ dbCalls' = IF got.kind = "period"
                         THEN Append(dbCalls, [fn |-> fn, period |-> got.period])
                         ELSE dbCalls
           /\ response' = IF got.kind = "period"
                          THEN [status |-> 200, error |-> "", from |-> "handler",
                                body |-> JsonBody(fn, got.period)]
                          ELSE OnError(got)
           /\ cacheStore' = CachePut(cacheStore, request, response')
    /\ stage' = "done"
    /\ UNCHANGED <<request, timezone, served>>
    /\ UNCHANGED renderVars
    /\ UNCHANGED poolVars

\* app.get('/history')
History == JsonRoute("/history", "getCommandsPerDay")

\* app.get('/time-of-day')
TimeOfDay == JsonRoute("/time-of-day", "getTimeOfDayStats")

\* app.get('/')
Stats == JsonRoute("/", "getStats")

\* app.get('/graph.svg') up to the call of generateContributionGraph
GraphSvg ==
    /\ stage = "handler"
    /\ request.path = "/graph.svg"
    /\ \E got \in {GetPeriodFromContext(request.query, timezone, now)} :
           /\ parsed' = ParsedBy(request.query, timezone, now)
           /\ IF got.kind = "period"
              THEN /\ dbCalls' = Append(dbCalls, [fn |-> "getCommandsPerDay", period |-> got.period])
                   /\ data' = MockRows
                   /\ options' = NoOptions
                   /\ pc' = "call"
                   /\ stage' = "render"
                   /\ response' = response
              ELSE /\ dbCalls' = dbCalls
                   /\ data' = data
                   /\ options' = options
                   /\ pc' = pc
                   /\ stage' = "done"
                   /\ response' = OnError(got)
    /\ UNCHANGED <<request, timezone, cacheStore, served>>
    /\ UNCHANGED <<now, tz, processedData, intensityMap, cells, dims, svg, history>>
    /\ UNCHANGED poolVars

\* app.get('/graph.svg') from the return of generateContributionGraph on, and
\* the cache middleware after next()
GraphSvgRespond ==
    /\ stage = "render"
    /\ pc = "returned"
    /\ response' = [status |-> 200, error |-> "", from |-> "handler", body |-> svg]
    /\ cacheStore' = CachePut(cacheStore, request, response')
    /\ stage' = "done"
    /\ UNCHANGED <<request, timezone, parsed, dbCalls, served>>
    /\ UNCHANGED renderVars
    /\ UNCHANGED poolVars

InitApp ==
    /\ RenderIdle
    /\ now = AppClock
    /\ AppIdle
    /\ PoolIdle

NextApp ==
    \/ Receive
    \/ Cors
    \/ TimezoneMiddleware
    \/ NotFound
    \/ CacheMiddleware
    \/ History
    \/ TimeOfDay
    \/ Stats
    \/ GraphSvg
    \/ GenerateContributionGraph
    \/ GraphSvgRespond

SpecApp == InitApp /\ [][NextApp]_vars

----------------------------------------------------------------------------
(* db.ts and main.ts: the connection pool, the three query functions and   *)
(* the shutdown handler.  Every await is a point where other calls and     *)
(* signal listeners run; an action is the code between two awaits.         *)

\* calls of the functions of db.ts in one behavior
MaxQueryCalls == 3

\* signals delivered in one behavior
MaxSignals == 2

\* the process has not exited
Running == exit = <<>>

\* a call that awaits pool.connect()
NewCall(fn) == [fn |-> fn, phase |-> "connecting", acquired |-> 0, released |-> 0]

\* pool.connect() resolves: a client leaves the pool
PoolConnect(pl) == [pl EXCEPT !.available = @ - 1]

\* client.release(): the client returns to the pool
Release(pl) == [pl EXCEPT !.available = @ + 1]

\* the client released only on the path that returns rows
TryFinally_NoFinally(call, pl, outcome) ==
    IF outcome = "rows"
    THEN [call |-> [call EXCEPT !.phase = "resolved", !.released = @ + 1], pool |-> Release(pl)]
    ELSE [call |-> [call EXCEPT !.phase = "rejected"], pool |-> pl]

\* try { ... await client.queryObject(...) ... } finally { client.release() }:
\* the call and the pool once the query has settled with rows or has thrown
TryFinally(call, pl, outcome) ==
    [call |-> [call EXCEPT !.phase = IF outcome = "rows" THEN "resolved" ELSE "rejected",
                           !.released = @ + 1],
     pool |-> Release(pl)]

\* the function is called and runs up to `await pool.connect()`
BeginCall(fn) ==
    /\ Len(calls) < MaxQueryCalls
    /\ calls' = Append(calls, NewCall(fn))
    /\ pool' = pool

\* `await pool.connect()` settles: with a client of the pool, or with the
\* error of a connection that could not be opened (the pool is lazy); with
\* no client in the pool the call keeps waiting
AwaitConnect(i) ==
    /\ calls[i].phase = "connecting"
    /\ pool.available > 0
    /\ \/ /\ calls' = [calls EXCEPT ![i].phase = "querying", ![i].acquired = @ + 1]
          /\ pool' = PoolConnect(pool)
       \/ /\ calls' = [calls EXCEPT ![i].phase = "rejected"]
          /\ pool' = pool

\* `await client.queryObject(...)` settles and the function runs to its end
AwaitQuery(i) ==
    /\ calls[i].phase = "querying"
    /\ \E outcome \in {"rows", "throws"} :
           /\ calls' = [calls EXCEPT ![i] = TryFinally(calls[i], pool, outcome).call]
           /\ pool' = TryFinally(calls[i], pool, outcome).pool

\* one of the three functions, called or resumed after one of its awaits
DbFunction(fn) ==
    /\ Running
    /\ \/ BeginCall(fn)
       \/ \E i \in 1..Len(calls) : calls[i].fn = fn /\ (AwaitConnect(i) \/ AwaitQuery(i))
    /\ UNCHANGED <<closing, exit>>
    /\ UNCHANGED renderVars
    /\ UNCHANGED appVars

GetCommandsPerDay == DbFunction("getCommandsPerDay")

GetStats == DbFunction("getStats")

GetTimeOfDayStats == DbFunction("getTimeOfDayStats")

\* shutdown(signal) up to `await closePool()`: pool.end() is called
Shutdown(signal) ==
    /\ Running
    /\ closing < MaxSignals
    /\ closing' = closing + 1
    /\ UNCHANGED <<calls, pool, exit>>
    /\ UNCHANGED renderVars
    /\ UNCHANGED appVars

\* Deno.addSignalListener('SIGINT', () => shutdown('SIGINT'))
Sigint == Shutdown("SIGINT")

\* Deno.addSignalListener('SIGTERM', () => shutdown('SIGTERM'))
Sigterm == Shutdown("SIGTERM")

\* closePool(): pool.end() settles, the clients in the pool ended, or throws
ClosePool(pl, outcome) ==
    IF outcome = "closed" THEN [pl EXCEPT !.available = 0, !.ended = TRUE] ELSE pl

\* shutdown(signal) after `await closePool()`: Deno.exit(0), or Deno.exit(1)
\* in the catch block
ShutdownExit ==
    /\ Running
    /\ closing > 0
    /\ \E outcome \in {"closed", "threw"} :
           /\ pool' = ClosePool(pool, outcome)
           /\ exit' = << [code |-> IF outcome = "closed" THEN 0 ELSE 1, closePool |-> outcome] >>
    /\ UNCHANGED <<calls, closing>>
    /\ UNCHANGED renderVars
    /\ UNCHANGED appVars

InitPool ==
    /\ RenderIdle
    /\ now = AppClock
    /\ AppIdle
    /\ PoolIdle

NextPool ==
    \/ GetCommandsPerDay
    \/ GetStats
    \/ GetTimeOfDayStats
    \/ Sigint
    \/ Sigterm
    \/ ShutdownExit

SpecPool == InitPool /\ [][NextPool]_vars

----------------------------------------------------------------------------
(* Vocabulary of the properties.  Calendar facts are restated here from    *)
(* the date strings themselves, without the Date operators above.          *)

Returned == pc = "returned"

CellSizeUsed == Option(options, "cellSize", 12)
CellGapUsed == Option(options, "cellGap", 3)
ShowMonthLabelsUsed == Option(options, "showMonthLabels", TRUE)
ShowDayLabelsUsed == Option(options, "showDayLabels", TRUE)
ShowFooterUsed == Option(options, "showFooter", TRUE)
CellBackgroundUsed == Option(options, "cellBackground", DefaultCellBackground)

\* day of the week of a date string, 0 = Sunday (Sakamoto's congruence)
WeekdayOf(dt) ==
    LET t == <<0, 3, 2, 5, 0, 3, 5, 1, 4, 6, 2, 4>>
        y == IF dt[2] < 3 THEN dt[1] - 1 ELSE dt[1]
    IN  (y + y \div 4 - y \div 100 + y \div 400 + t[dt[2]] + dt[3]) % 7

IsLeapYear(y) == (y % 4 = 0 /\ y % 100 # 0) \/ y % 400 = 0

DaysInMonth(y, m) ==
    IF m = 2 THEN (IF IsLeapYear(y) THEN 29 ELSE 28)
    ELSE IF m \in {4, 6, 9, 11} THEN 30 ELSE 31

\* the calendar day after a date string
NextDay(dt) ==
    IF dt[3] < DaysInMonth(dt[1], dt[2]) THEN <<dt[1], dt[2], dt[3] + 1>>
    ELSE IF dt[2] < 12 THEN <<dt[1], dt[2] + 1, 1>>
    ELSE <<dt[1] + 1, 1, 1>>

\* a is an earlier date than b
DateBefore(a, b) ==
    \/ a[1] < b[1]
    \/ a[1] = b[1] /\ a[2] < b[2]
    \/ a[1] = b[1] /\ a[2] = b[2] /\ a[3] < b[3]

\* number of the day of a date string, for differences of dates
DayNumber(dt) == DaysFromCivil(dt[1], dt[2], dt[3])

\* day number of the Sunday on or before a date
SundayOnOrBefore(dt) == DayNumber(dt) - WeekdayOf(dt)

FirstDate == processedData[1].date
LastDate == processedData[Len(processedData)].date

Texts == SelectSeq(svg, LAMBDA e : e.tag = "text")
Rects == SelectSeq(svg, LAMBDA e : e.tag = "rect")

\* the rect elements of the grid: renderCells comes before the footer's legend
CellRects == SubSeq(Rects, 1, Len(cells))

----------------------------------------------------------------------------
(* C1 *)

WellFormed ==
    /\ Len(svg) >= 2
    /\ svg[1].tag = "svg"
    /\ svg[Len(svg)].tag = "/svg"
    /\ \A i \in 2..(Len(svg) - 1) : svg[i].tag \in {"text", "rect", "path"}
    /\ svg[1].width > 0
    /\ svg[1].height > 0

\* C1 as stated: for every non-empty series, sorted or not, and all cellSize,
\* cellGap >= 0 the call returns a document that opens with the svg tag, closes
\* with </svg> and declares positive integer width and height.
C1_AnyOrder == (Returned /\ Len(data) > 0) => WellFormed

\* C1 amended: the same for every non-empty series whose last entry's date is
\* not earlier than the Sunday on or before its first entry's date (every
\* series in ascending order is one).
C1_WellFormed ==
    (Returned /\ Len(data) > 0 /\ SundayOnOrBefore(FirstDate) <= DayNumber(LastDate))
        => WellFormed

\* a series that is not in ascending order and not contiguous, rendered well
C1_Witness ==
    /\ Returned
    /\ Len(data) = 3
    /\ DateBefore(data[2].date, data[1].date)
    /\ DayNumber(data[3].date) > DayNumber(data[1].date) + 1
    /\ CellSizeUsed = 0
    /\ WellFormed

----------------------------------------------------------------------------
(* C2 *)

Today == ToISODate(now)

ZeroYearFrom(first) ==
    /\ Len(processedData) >= 1
    /\ processedData[1].date = first
    /\ processedData[Len(processedData)].date = Today
    /\ \A i \in 1..Len(processedData) : processedData[i].count = 0
    /\ \A i \in 1..(Len(processedData) - 1) :
          processedData[i + 1].date = NextDay(processedData[i].date)

EmptyGridRendered ==
    /\ Len(cells) >= 365
    /\ Len(Rects) >= Len(cells)
    /\ \A i \in 1..Len(cells) : CellRects[i].fill = Literal(CellBackgroundUsed)
    /\ \A i \in 1..Len(Texts) : Texts[i].body \notin {"No data", "no data"}

\* C2 as stated: for an empty series the substituted series has one zero entry
\* per day from the same day of the month one year earlier through today, at
\* least 365 cell rectangles are drawn, all in cellBackground, and there is
\* no "no data" text.
C2_SameDayLastYear ==
    (Returned /\ Len(data) = 0)
        => /\ ZeroYearFrom(<<Today[1] - 1, Today[2], Today[3]>>)
           /\ EmptyGridRendered

\* C2 amended: the substituted series starts on the same day of the month
\* one year earlier, or on March 1 of the previous year when today is
\* February 29.
C2_EmptySeries ==
    (Returned /\ Len(data) = 0)
        => /\ ZeroYearFrom(IF Today[2] = 2 /\ Today[3] = 29
                           THEN <<Today[1] - 1, 3, 1>>
                           ELSE <<Today[1] - 1, Today[2], Today[3]>>)
           /\ EmptyGridRendered

\* an empty series rendered on a leap day
C2_Witness ==
    /\ Returned
    /\ Len(data) = 0
    /\ Today = <<2024, 2, 29>>
    /\ Len(processedData) = 366
    /\ "cellBackground" \in DOMAIN options

----------------------------------------------------------------------------
(* C3 *)

GridDays ==
    IF SundayOnOrBefore(FirstDate) <= DayNumber(LastDate)
    THEN DayNumber(LastDate) - SundayOnOrBefore(FirstDate) + 1
    ELSE 0

\* C3: the cells are exactly the calendar dates from the Sunday on or before
\* the first date through the last date, ascending, each once; a date of the
\* series carries its entry's count and intensity, any other date 0 and 0.
C3_OneCellPerDay ==
    Returned =>
        /\ Len(cells) = GridDays
        /\ Len(cells) > 0 =>
              /\ WeekdayOf(cells[1].date) = 0
              /\ DayNumber(cells[1].date) = SundayOnOrBefore(FirstDate)
              /\ cells[Len(cells)].date = LastDate
        /\ \A i \in 2..Len(cells) : cells[i].date = NextDay(cells[i - 1].date)
        /\ \A i \in 1..Len(cells) :
              /\ \A k \in 1..Len(processedData) :
                    processedData[k].date = cells[i].date
                        => /\ cells[i].count = processedData[k].count
                           /\ cells[i].intensity = intensityMap[processedData[k].date]
              /\ (\A k \in 1..Len(processedData) : processedData[k].date # cells[i].date)
                    => cells[i].count = 0 /\ cells[i].intensity = 0

\* a sparse series: a day between two entries has none, and an entry has a
\* positive count
C3_Witness ==
    /\ Returned
    /\ Len(data) = 2
    /\ \E i \in 1..Len(cells) :
          /\ DateBefore(data[1].date, cells[i].date)
          /\ DateBefore(cells[i].date, data[2].date)
          /\ cells[i].count = 0
    /\ \E i \in 1..Len(cells) : cells[i].count > 0 /\ cells[i].intensity > 0

----------------------------------------------------------------------------
(* C4 *)

SaturdaysBefore(i) == Cardinality({j \in 1..(i - 1) : WeekdayOf(cells[j].date) = 6})

\* C4: a cell's y is its date's day of the week (Sunday 0 .. Saturday 6)
\* times cellSize + cellGap, its x the number of Saturdays among the cells
\* before it times cellSize + cellGap; so the first cell is a Sunday at (0, 0),
\* and with cellSize + cellGap > 0 no two cells share a position.
C4_CellPositions ==
    Returned =>
        LET pitch == CellSizeUsed + CellGapUsed
        IN  /\ \A i \in 1..Len(cells) :
                  /\ cells[i].y = WeekdayOf(cells[i].date) * pitch
                  /\ cells[i].x = SaturdaysBefore(i) * pitch
            /\ Len(cells) > 0 =>
                  /\ WeekdayOf(cells[1].date) = 0
                  /\ cells[1].x = 0 /\ cells[1].y = 0
            /\ pitch > 0 =>
                  \A i, j \in 1..Len(cells) :
                      (cells[i].x = cells[j].x /\ cells[i].y = cells[j].y) => i = j

\* a grid of several weeks with a positive pitch
C4_Witness ==
    /\ Returned
    /\ CellSizeUsed + CellGapUsed > 0
    /\ Len(cells) > 14
    /\ cells[Len(cells)].x >= 2 * (CellSizeUsed + CellGapUsed)
    /\ cells[Len(cells)].y > 0

----------------------------------------------------------------------------
(* C5 *)

\* C5: a series entry is in bucket 0 exactly if its count is 0, and an entry
\* with a positive count is in a bucket from 1 to 9.
C5_ZeroBucket ==
    Returned =>
        \A k \in 1..Len(processedData) :
            LET bucket == intensityMap[processedData[k].date]
            IN  /\ bucket = 0 <=> processedData[k].count = 0
                /\ processedData[k].count > 0 => bucket \in 1..9

\* a series with zero days among days that reach the top bucket
C5_Witness ==
    /\ Returned
    /\ \E k \in 1..Len(processedData) :
          processedData[k].count = 0 /\ intensityMap[processedData[k].date] = 0
    /\ \E k \in 1..Len(processedData) : intensityMap[processedData[k].date] = 9
    /\ \E k \in 1..Len(processedData) : intensityMap[processedData[k].date] = 1

----------------------------------------------------------------------------
(* C6 *)

\* C6: within one series the bucket never decreases as the count grows, and
\* equal counts share a bucket.
C6_Monotone ==
    Returned =>
        \A j, k \in 1..Len(processedData) :
            processedData[j].count <= processedData[k].count
                => intensityMap[processedData[j].date] <= intensityMap[processedData[k].date]

\* a series with two days of one positive count and days in four other buckets
C6_Witness ==
    /\ Returned
    /\ \E j, k \in 1..Len(processedData) :
          /\ j # k
          /\ processedData[j].count = processedData[k].count
          /\ processedData[j].count > 0
    /\ Cardinality({intensityMap[processedData[k].date] : k \in 1..Len(processedData)}) >= 4

----------------------------------------------------------------------------
(* C7 *)

\* C7: the color of intensity 0 is the cellBackground string itself, so the
\* rect of every cell with count 0, in the series or not, is filled with it.
C7_ZeroIsBackground ==
    Returned =>
        /\ \A i \in 1..Len(cells) :
              cells[i].count = 0 => CellRects[i].fill = Literal(CellBackgroundUsed)
        /\ ShowFooterUsed => Rects[Len(cells) + 1].fill = Literal(CellBackgroundUsed)

\* a custom background, with a zero day of the series, a day outside the
\* series and an active day in the grid
C7_Witness ==
    /\ Returned
    /\ "cellBackground" \in DOMAIN options
    /\ "baseColor" \in DOMAIN options
    /\ \E k \in 1..Len(data) : data[k].count = 0 /\ \E i \in 1..Len(cells) : cells[i].date = data[k].date
    /\ \E i \in 1..Len(cells) : \A k \in 1..Len(data) : data[k].date # cells[i].date
    /\ \E i \in 1..Len(cells) : cells[i].count > 0 /\ CellRects[i].fill # Literal(CellBackgroundUsed)

----------------------------------------------------------------------------
(* C8 *)

MonthNames == {MONTHS[m] : m \in 1..12}

\* the month label elements, in document order
MonthLabels == SelectSeq(Texts, LAMBDA e : e.body \in MonthNames)

YearMonth(dt) == <<dt[1], dt[2]>>

\* indices of the cells that begin a maximal run of cells of one calendar month
RunStarts ==
    SelectSeq([i \in 1..Len(cells) |-> i],
              LAMBDA i : i = 1 \/ YearMonth(cells[i].date) # YearMonth(cells[i - 1].date))

FirstRunDropped == Len(cells) > 0 /\ cells[1].date[3] > 7

\* the run starts that keep their label
LabelledRuns == IF FirstRunDropped THEN Tail(RunStarts) ELSE RunStarts

\* C8: with month labels enabled there is one label per run of cells of one
\* calendar month, in grid order, at the x of the run's first cell, except
\* that the first run has none exactly if the first cell's day of the month
\* is greater than 7.
C8_MonthLabels ==
    (Returned /\ ShowMonthLabelsUsed) =>
        /\ Len(MonthLabels) = Len(LabelledRuns)
        /\ \A k \in 1..Len(MonthLabels) :
              /\ MonthLabels[k].body = MONTHS[cells[LabelledRuns[k]].date[2]]
              /\ MonthLabels[k].x = dims.leftMargin + cells[LabelledRuns[k]].x

\* three months in the grid, the first starting after the 7th
C8_Witness ==
    /\ Returned
    /\ ShowMonthLabelsUsed
    /\ Len(data) > 0
    /\ Len(RunStarts) = 3
    /\ FirstRunDropped
    /\ Len(MonthLabels) = 2
    /\ MonthLabels[1].x < MonthLabels[2].x

----------------------------------------------------------------------------
(* C9 *)

\* the cell of the series' first date begins or continues run number ...
FirstDateRun ==
    IF \E i \in 1..Len(cells) : cells[i].date = FirstDate
    THEN Cardinality({k \in 1..Len(RunStarts) :
                        ~DateBefore(FirstDate, cells[RunStarts[k]].date)})
    ELSE 0

\* the month of the series' first date has its label in the document
FirstMonthLabelShown ==
    LET dropped == Len(RunStarts) - Len(MonthLabels)
    IN  /\ FirstDateRun > dropped
        /\ MonthLabels[FirstDateRun - dropped].body = MONTHS[FirstDate[2]]
        /\ MonthLabels[FirstDateRun - dropped].x
              = dims.leftMargin + cells[RunStarts[FirstDateRun]].x

----------------------------------------------------------------------------
(* C10 *)

\* C10: a call with showMonthLabels = false and showDayLabels = false and no
\* other display flag returns a document without text elements.
C10_NoText ==
    (/\ Returned
     /\ "showMonthLabels" \in DOMAIN options /\ ~options.showMonthLabels
     /\ "showDayLabels" \in DOMAIN options /\ ~options.showDayLabels
     /\ "showFooter" \notin DOMAIN options)
        => Len(Texts) = 0

----------------------------------------------------------------------------
(* C11 *)

\* every option with its default filled in
EffectiveOptions(opts) ==
    [cellSize        |-> Option(opts, "cellSize", 12),
     cellGap         |-> Option(opts, "cellGap", 3),
     showMonthLabels |-> Option(opts, "showMonthLabels", TRUE),
     showDayLabels   |-> Option(opts, "showDayLabels", TRUE),
     showFooter      |-> Option(opts, "showFooter", TRUE),
     baseColor       |-> Option(opts, "baseColor", DefaultBaseColor),
     textColor       |-> Option(opts, "textColor", DefaultTextColor),
     cellBackground  |-> Option(opts, "cellBackground", DefaultCellBackground)]

\* two option sets mean the same but for one option
SameButFor(o1, o2, name) ==
    \A n \in DOMAIN EffectiveOptions(o1) \ {name} :
        EffectiveOptions(o1)[n] = EffectiveOptions(o2)[n]

TextsOf(doc) == SelectSeq(doc, LAMBDA e : e.tag = "text")

\* the text elements left of the grid
DayLabelTexts == SelectSeq(Texts, LAMBDA e : e.x < dims.leftMargin /\ e.fontSize = 10)

\* an earlier call with the same series and the same other options, with
\* day labels shown
EarlierWithDayLabels(h) ==
    /\ h.data = data
    /\ SameButFor(h.options, options, "showDayLabels")
    /\ Option(h.options, "showDayLabels", TRUE)

\* C11: with day labels shown the output has exactly seven day-label texts,
\* S M T W T F S from the top row down, each at the vertical centre of its
\* row; with day labels off it has none, and it has exactly seven text
\* elements fewer than the output for the same series and other options with
\* day labels shown.
C11_DayLabels ==
    Returned =>
        /\ ShowDayLabelsUsed =>
              /\ Len(DayLabelTexts) = 7
              /\ \A k \in 1..7 :
                    /\ DayLabelTexts[k].body = <<"S", "M", "T", "W", "T", "F", "S">>[k]
                    /\ DayLabelTexts[k].y2 =
                          2 * (dims.topMargin + (k - 1) * (CellSizeUsed + CellGapUsed))
                          + CellSizeUsed
        /\ ~ShowDayLabelsUsed =>
              /\ Len(DayLabelTexts) = 0
              /\ \A i \in 1..Len(Texts) : Texts[i].body \notin {"S", "M", "T", "W", "F"}
              /\ \A j \in 1..Len(history) :
                    EarlierWithDayLabels(history[j])
                        => /\ Len(Texts) + 7 = Len(TextsOf(history[j].svg))
                           /\ Len(Texts) < Len(TextsOf(history[j].svg))

\* a call without day labels after one with them, month labels shown in both
C11_Witness ==
    /\ Returned
    /\ ~ShowDayLabelsUsed
    /\ ShowMonthLabelsUsed
    /\ Len(data) = 4
    /\ \E j \in 1..Len(history) : EarlierWithDayLabels(history[j])
    /\ Len(Texts) > 0

----------------------------------------------------------------------------
(* C12 *)

\* C12: every rect element of the output carries rx="2", and every rect is
\* a square of the cell size or of the legend size, so none is a background
\* rectangle.
C12_RoundedRects ==
    Returned =>
        \A i \in 1..Len(svg) :
            svg[i].tag = "rect"
                => /\ "rx" \in DOMAIN svg[i]
                   /\ svg[i].rx = 2
                   /\ svg[i].width = svg[i].height
                   /\ svg[i].width \in {CellSizeUsed, 10}

\* a document with the rects of several weeks of cells and of the legend
C12_Witness ==
    /\ Returned
    /\ ShowFooterUsed
    /\ Len(cells) >= 14
    /\ Len(Rects) = Len(cells) + 8

----------------------------------------------------------------------------
(* C13 *)

\* an earlier call with the same series and the same other options, with
\* smaller cells
EarlierWithSmallerCells(h) ==
    /\ h.data = data
    /\ SameButFor(h.options, options, "cellSize")
    /\ Option(h.options, "cellSize", 12) < CellSizeUsed

\* C13: leftMargin is 30 with day labels and 10 without, topMargin 20 with
\* month labels and 10 without, the bottom margin 35 with the footer and 10
\* without; graphHeight is 7 * (cellSize + cellGap) whatever the data,
\* graphWidth is the largest cell x plus cellSize + cellGap (-Infinity when
\* there is no cell), width = leftMargin + graphWidth + 10 and height =
\* topMargin + graphHeight + bottom margin; the root tag declares these; and
\* against a call with the same series and other options and a smaller
\* cellSize, the width or the height is strictly larger.
C13_Dimensions ==
    Returned =>
        LET left   == IF ShowDayLabelsUsed THEN 30 ELSE 10
            top    == IF ShowMonthLabelsUsed THEN 20 ELSE 10
            bottom == IF ShowFooterUsed THEN 35 ELSE 10
            pitch  == CellSizeUsed + CellGapUsed
        IN  /\ dims.leftMargin = left
            /\ dims.topMargin = top
            /\ dims.graphHeight = 7 * pitch
            /\ dims.height = top + dims.graphHeight + bottom
            /\ svg[1].width = dims.width
            /\ svg[1].height = dims.height
            /\ Len(cells) > 0 =>
                  /\ \E i \in 1..Len(cells) :
                        /\ \A j \in 1..Len(cells) : cells[j].x <= cells[i].x
                        /\ dims.graphWidth = cells[i].x + pitch
                  /\ dims.width = left + dims.graphWidth + 10
            /\ Len(cells) = 0 =>
                  /\ dims.graphWidth = NegInfinity
                  /\ dims.width = NegInfinity
            /\ \A j \in 1..Len(history) :
                  EarlierWithSmallerCells(history[j])
                      => \/ history[j].dims.width < dims.width
                         \/ history[j].dims.height < dims.height

\* a grid of several columns rendered after the same grid with smaller cells
C13_Witness ==
    /\ Returned
    /\ Len(cells) > 14
    /\ \E j \in 1..Len(history) :
          /\ EarlierWithSmallerCells(history[j])
          /\ history[j].dims.width < dims.width

----------------------------------------------------------------------------
(* C14 *)

Paths == SelectSeq(svg, LAMBDA e : e.tag = "path")

\* the calendar months the grid has cells of
GridMonths == {YearMonth(cells[i].date) : i \in 1..Len(cells)}

CellsOfMonth(ym) == {cells[i] : i \in {j \in 1..Len(cells) : YearMonth(cells[j].date) = ym}}

\* the calendar month immediately after a month
FollowingMonth(ym) == IF ym[2] = 12 THEN <<ym[1] + 1, 1>> ELSE <<ym[1], ym[2] + 1>>

\* the months of the grid that are followed in the grid by the next calendar month
MonthsWithFollower == {ym \in GridMonths : FollowingMonth(ym) \in GridMonths}

\* the separator between a month of the grid and the calendar month after it
SeparatorAfter(ym) ==
    SeparatorPath(CellsOfMonth(ym), CellsOfMonth(FollowingMonth(ym)),
                  dims.leftMargin, dims.topMargin, CellSizeUsed, CellGapUsed,
                  StrokeColor(Option(options, "textColor", DefaultTextColor)))

\* C14: a grid of k calendar months has no separator path when k < 2 and
\* otherwise exactly k - 1 paths, which are the separators between each
\* month of the grid and the calendar month immediately after it; no path
\* comes from two months that are not consecutive in time.
C14_ConsecutiveMonths ==
    Returned =>
        /\ Cardinality(GridMonths) < 2 => Len(Paths) = 0
        /\ Cardinality(GridMonths) >= 2 =>
              /\ Len(Paths) = Cardinality(GridMonths) - 1
              /\ {Paths[i] : i \in 1..Len(Paths)}
                     = {SeparatorAfter(ym)[1] : ym \in MonthsWithFollower}

----------------------------------------------------------------------------
(* C15 *)

\* the sum of the counts of the series, taken value by value: the lower
\* half of the values and the upper half
RECURSIVE WeightedSum(_)
WeightedSum(values) ==
    IF values = {} THEN 0
    ELSE IF Cardinality(values) = 1
    THEN LET v == CHOOSE x \in values : TRUE
         IN  v * Cardinality({i \in 1..Len(processedData) : processedData[i].count = v})
    ELSE LET middle == CHOOSE x \in values :
                           Cardinality({y \in values : y < x}) = Cardinality(values) \div 2
         IN  WeightedSum({y \in values : y < middle}) + WeightedSum({y \in values : y >= middle})

TotalCount == WeightedSum({processedData[i].count : i \in 1..Len(processedData)})

StatsTexts == SelectSeq(Texts, LAMBDA e : e.body = "# commands over # days")

\* C15: with the footer shown the document has one statistics text, and it
\* reports the sum of the counts of all entries of the series rendered (the
\* synthesized one for an empty input) and the number of its entries,
\* whatever the number of cells; without the footer there is none.
C15_FooterStats ==
    Returned =>
        /\ ShowFooterUsed =>
              /\ Len(StatsTexts) = 1
              /\ StatsTexts[1].args = <<TotalCount, Len(processedData)>>
        /\ ~ShowFooterUsed => Len(StatsTexts) = 0

\* a sparse series: fewer entries than cells, several different counts
C15_Witness ==
    /\ Returned
    /\ ShowFooterUsed
    /\ Len(processedData) >= 5
    /\ Len(cells) > 2 * Len(processedData)
    /\ TotalCount > Len(cells)
    /\ Len(StatsTexts) = 1

----------------------------------------------------------------------------
(* C16 *)

\* an earlier call with identical arguments
EarlierIdentical(h) == h.data = data /\ h.options = options

\* C16: a call with a non-empty series returns the document that every
\* earlier call with identical arguments returned, whatever calls came in
\* between and however much later it is made.
C16_Deterministic ==
    (Returned /\ Len(data) > 0) =>
        \A j \in 1..Len(history) : EarlierIdentical(history[j]) => history[j].svg = svg

\* the third call repeats the first, a day or more later, after a different
\* call in between
C16_Witness ==
    /\ Returned
    /\ Len(data) > 0
    /\ Len(history) = 2
    /\ EarlierIdentical(history[1])
    /\ ~EarlierIdentical(history[2])
    /\ history[1].now + HoursPerDay <= now
    /\ history[1].svg = svg
    /\ Len(svg) > 10

----------------------------------------------------------------------------
(* C20 *)

PeriodText == request.query.period

DigitChars == <<"0", "1", "2", "3", "4", "5", "6", "7", "8", "9">>

\* the text is one or more decimal digits followed by one of y, m, d in
\* either case
HasPeriodForm(text) ==
    /\ Len(text) >= 2
    /\ text[Len(text)] \in {"y", "m", "d", "Y", "M", "D"}
    /\ \A i \in 1..(Len(text) - 1) : text[i] \in {DigitChars[k] : k \in 1..10}

\* the number a run of decimal digits writes
DecimalValue(digits) ==
    LET Place[i \in 0..Len(digits)] ==
            IF i = 0 THEN 0
            ELSE 10 * Place[i - 1] + ((CHOOSE k \in 1..10 : DigitChars[k] = digits[i]) - 1)
    IN  Place[Len(digits)]

PeriodValue(text) == DecimalValue(SubSeq(text, 1, Len(text) - 1))

PeriodUnit(text) ==
    CASE text[Len(text)] \in {"y", "Y"} -> "years"
      [] text[Len(text)] \in {"m", "M"} -> "months"
      [] text[Len(text)] \in {"d", "D"} -> "days"

\* the date a text YYYY-MM-DD, or one with a signed six-digit year, writes
DateOfText(text) ==
    LET signed == text[1] \in {"-", "+"}
        yl     == IF signed THEN 7 ELSE 4
        year   == DecimalValue(SubSeq(text, IF signed THEN 2 ELSE 1, yl))
    IN  << IF text[1] = "-" THEN -year ELSE year,
           DecimalValue(SubSeq(text, yl + 2, yl + 3)),
           DecimalValue(SubSeq(text, yl + 5, yl + 6)) >>

\* hours a zone's wall clock is ahead of UTC at the clock readings explored
\* (Los Angeles keeps daylight time from mid March to the end of October)
WallClockAhead(name, clock) ==
    LET utc == ToISODate(clock)
    IN  CASE ToLowerCase(name) = <<"u", "t", "c">> -> 0
          [] ToLowerCase(name) = ToLowerCase(ZoneTokyo) -> 9
          [] ToLowerCase(name) = ToLowerCase(ZoneLosAngeles) ->
                IF utc[2] \in 4..10 \/ (utc[2] = 3 /\ utc[3] > 14) THEN -7 ELSE -8

TodayInZone == ToISODate(now + WallClockAhead(timezone, now))

\* start is end minus the value in the unit, the day of the month cut to
\* the length of the month reached
IsPeriodBefore(start, end, value, unit) ==
    CASE unit = "days" -> DayNumber(start) = DayNumber(end) - value
      [] unit = "months" ->
            /\ start[1] * 12 + start[2] = end[1] * 12 + end[2] - value
            /\ start[2] \in 1..12
            /\ start[3] = (IF end[3] > DaysInMonth(start[1], start[2])
                           THEN DaysInMonth(start[1], start[2]) ELSE end[3])
      [] unit = "years" ->
            /\ start[1] = end[1] - value
            /\ start[2] = end[2]
            /\ start[3] = (IF end[3] > DaysInMonth(start[1], start[2])
                           THEN DaysInMonth(start[1], start[2]) ELSE end[3])

\* C20: parsePeriod returns null exactly when the text is not digits
\* followed by y, m or d (either case) with a value above 0; otherwise it
\* returns the period whose endDate is today in the time zone and whose
\* startDate is the endDate minus the value in years, months or days, so
\* that startDate is before endDate and a value in days spans that many days.
C20_ParsePeriod ==
    parsed.kind # "none" =>
        LET valid == HasPeriodForm(PeriodText) /\ PeriodValue(PeriodText) > 0
        IN  /\ parsed.kind = "null" <=> ~valid
            /\ valid =>
                  /\ parsed.kind = "period"
                  /\ DateOfText(parsed.endDate) = TodayInZone
                  /\ IsPeriodBefore(DateOfText(parsed.startDate), DateOfText(parsed.endDate),
                                    PeriodValue(PeriodText), PeriodUnit(PeriodText))
                  /\ DateBefore(DateOfText(parsed.startDate), DateOfText(parsed.endDate))

----------------------------------------------------------------------------
(* C17 *)

\* a route handler has answered the request, by a response or by an
\* exception that app.onError turned into one
AnsweredByHandler == stage = "done" /\ response.from \in {"handler", "onError"}

\* the period text is digits followed by y, m or d with a value above 0
PeriodParses == HasPeriodForm(PeriodText) /\ PeriodValue(PeriodText) > 0

\* the Period is the one the period text and the time zone determine
IsPeriodOfText(period) ==
    /\ period.timezone = timezone
    /\ DateOfText(period.endDate) = TodayInZone
    /\ IsPeriodBefore(DateOfText(period.startDate), DateOfText(period.endDate),
                      PeriodValue(PeriodText), PeriodUnit(PeriodText))

\* C17: in every endpoint, when the period query parameter is provided it
\* takes precedence over start and end: the Period passed to the database
\* function is exactly parsePeriod(period, timezone), start and end are
\* neither used nor validated; when the period value does not parse the
\* request is answered with status 400 and no database function is called.
C17_PeriodTakesPrecedence ==
    (AnsweredByHandler /\ "period" \in DOMAIN request.query) =>
        IF PeriodParses
        THEN /\ response.status = 200
             /\ Len(dbCalls) = 1
             /\ IsPeriodOfText(dbCalls[1].period)
        ELSE /\ response.status = 400
             /\ dbCalls = <<>>

----------------------------------------------------------------------------
(* C18 *)

\* the text writes a calendar date as YYYY-MM-DD
IsCalendarDateText(text) ==
    /\ Len(text) = 10
    /\ text[5] = "-"
    /\ text[8] = "-"
    /\ \A i \in {1, 2, 3, 4, 6, 7, 9, 10} : text[i] \in {DigitChars[k] : k \in 1..10}
    /\ DateOfText(text)[2] \in 1..12
    /\ DateOfText(text)[3] \in 1..DaysInMonth(DateOfText(text)[1], DateOfText(text)[2])

\* the request asks an endpoint and brings no period parameter
NoPeriodGiven ==
    /\ request.method = "GET"
    /\ request.path \in {"/", "/history", "/time-of-day", "/graph.svg"}
    /\ "period" \notin DOMAIN request.query

\* the answer is a client error with the message, and neither a database
\* function nor the renderer was invoked
RejectedWith(message) ==
    /\ response.status = 400
    /\ response.error = message
    /\ dbCalls = <<>>
    /\ pc = "idle"

\* one database call, whose Period holds the start and the end of the
\* parameters in the set and no other
CalledWithExactly(names) ==
    /\ response.status = 200
    /\ Len(dbCalls) = 1
    /\ ("startDate" \in DOMAIN dbCalls[1].period) = ("start" \in names)
    /\ ("endDate" \in DOMAIN dbCalls[1].period) = ("end" \in names)
    /\ "start" \in names => dbCalls[1].period.startDate = request.query.start
    /\ "end" \in names => dbCalls[1].period.endDate = request.query.end

\* the outcome the validation rules fix for the parameters in the set
ValidatedOutcome(names) ==
    IF "start" \in names /\ ~IsCalendarDateText(request.query.start)
    THEN RejectedWith("Invalid start date format")
    ELSE IF "end" \in names /\ ~IsCalendarDateText(request.query.end)
    THEN RejectedWith("Invalid end date format")
    ELSE IF {"start", "end"} \subseteq names
            /\ DateBefore(DateOfText(request.query.end), DateOfText(request.query.start))
    THEN RejectedWith("Start date must be before or equal to end date")
    ELSE CalledWithExactly(names)

\* the parameters among start and end that the query holds
DatesInQuery == {"start", "end"} \cap DOMAIN request.query

\* those of them that are not empty
DatesGiven == {n \in DatesInQuery : request.query[n] # <<>>}

\* C18 as stated: for every endpoint and request without a period
\* parameter, a start or end that is not a valid YYYY-MM-DD calendar date,
\* or a start later than the end, is answered with status 400 (the start
\* format before the end format before the ordering) and neither a
\* database function nor the renderer is invoked; otherwise the database
\* function is called with exactly the given start and end.
C18_DateValidation ==
    (NoPeriodGiven /\ stage = "done" /\ response.from \in {"cache", "handler", "onError"})
        => ValidatedOutcome(DatesInQuery)

\* C18, amended: the same for a request that reaches its route handler
\* (it is not answered from the response cache), where an empty start or
\* end counts as not given.
C18_DateValidationOfGiven ==
    (NoPeriodGiven /\ AnsweredByHandler) => ValidatedOutcome(DatesGiven)

\* a start and an end that are both malformed, answered with the start error
C18_Witness ==
    /\ NoPeriodGiven
    /\ AnsweredByHandler
    /\ DatesGiven = {"start", "end"}
    /\ ~IsCalendarDateText(request.query.start)
    /\ ~IsCalendarDateText(request.query.end)
    /\ RejectedWith("Invalid start date format")

----------------------------------------------------------------------------
(* C19 *)

\* the time zone a Prefer header names, in a one-element sequence, <<>> for
\* a header without a timezone token: read off the headers explored
NamedTimezone(headers) ==
    IF "prefer" \notin DOMAIN headers THEN <<>>
    ELSE CASE headers.prefer = PreferLosAngeles -> << ZoneLosAngeles >>
           [] headers.prefer = PreferTokyoQuoted -> << ZoneTokyo >>
           [] headers.prefer = PreferUpperUTC -> << <<"u", "t", "c">> >>
           [] headers.prefer = PreferInvalid ->
                 << <<"I", "n", "v", "a", "l", "i", "d", "/", "T", "i", "m", "e", "z", "o", "n", "e">> >>
           [] headers.prefer = PreferUnclosedQuote ->
                 << <<"\"", "A", "s", "i", "a", "/", "T", "o", "k", "y", "o">> >>
           [] OTHER -> <<>>

\* the names of time zones, in any letter case
IsTimezoneName(name) ==
    ToLowerCase(name) \in {<<"u", "t", "c">>,
                           <<"a", "s", "i", "a", "/", "t", "o", "k", "y", "o">>,
                           <<"a", "m", "e", "r", "i", "c", "a", "/", "l", "o", "s", "_",
                             "a", "n", "g", "e", "l", "e", "s">>}

\* the time zone of the system the application runs on
SystemTimezoneName == <<"U", "T", "C">>

\* what the timezone middleware owes a finished request
TimezoneHonoured ==
    LET named == NamedTimezone(request.headers)
    IN  IF named # <<>> /\ ~IsTimezoneName(named[1])
        THEN /\ response.status = 400
             /\ response.error = "Invalid timezone"
             /\ response.from = "timezone"
             /\ dbCalls = <<>>
             /\ pc = "idle"
        ELSE /\ response.from # "timezone"
             /\ \A i \in 1..Len(dbCalls) :
                   dbCalls[i].period.timezone
                       = (IF named # <<>> THEN named[1] ELSE SystemTimezoneName)

\* C19 as stated: for every request the timezone middleware runs before any
\* route handler: a Prefer header naming an invalid timezone yields status
\* 400 with an 'Invalid timezone' error and no route handler or database
\* function runs; a Prefer header naming a valid timezone (quoted or
\* unquoted) makes exactly that timezone the Period timezone; a missing
\* Prefer header or one without a timezone token falls back to the system
\* timezone.
C19_TimezoneOfEveryRequest == stage = "done" => TimezoneHonoured

\* C19, amended: the same for every request other than a CORS preflight
\* (method OPTIONS), which cors() answers before the timezone middleware.
C19_TimezoneUnlessPreflight ==
    (stage = "done" /\ request.method # "OPTIONS") => TimezoneHonoured

\* a quoted valid name reached the database function as the Period timezone
C19_Witness ==
    /\ stage = "done"
    /\ request.method # "OPTIONS"
    /\ "prefer" \in DOMAIN request.headers
    /\ request.headers.prefer = PreferTokyoQuoted
    /\ Len(dbCalls) = 1
    /\ dbCalls[1].period.timezone = ZoneTokyo
    /\ response.status = 200

----------------------------------------------------------------------------
(* C21 *)

\* the entries of the series with a count above 0
PositiveEntries == {i \in 1..Len(data) : data[i].count > 0}

\* the r-th smallest of the positive counts, equal counts counted each
RankedCount(r) ==
    CHOOSE x \in {data[i].count : i \in PositiveEntries} :
        /\ Cardinality({i \in PositiveEntries : data[i].count < x}) < r
        /\ r <= Cardinality({i \in PositiveEntries : data[i].count <= x})

Percentiles == <<10, 25, 40, 55, 70, 80, 88, 94>>

\* the least whole number that is at least a / b
CeilingOf(a, b) == IF a % b = 0 THEN a \div b ELSE a \div b + 1

\* the cut point of the k-th percentile: v[max(1, ceil(p * n / 100))]
CutPoint(k) ==
    LET rank == CeilingOf(Percentiles[k] * Cardinality(PositiveEntries), 100)
    IN  RankedCount(IF rank < 1 THEN 1 ELSE rank)

\* the bucket the cut points give a positive count
BucketByCutPoints(count, cuts) ==
    IF count > cuts[8] THEN 9
    ELSE CHOOSE k \in 1..8 : cuts[k] >= count /\ \A j \in 1..(k - 1) : cuts[j] < count

\* C21: for a series with n >= 1 positive counts sorted ascending v[1..n],
\* the cut point for percentile p in (10, 25, 40, 55, 70, 80, 88, 94) is
\* v[max(1, ceil(p * n / 100))], and every entry with a count above 0 is
\* assigned the smallest bucket k in 1..8 whose k-th cut point is at least
\* its value, or bucket 9 when its value exceeds the 94th-percentile cut
\* point.
C21_PercentileBuckets ==
    (pc = "returned" /\ PositiveEntries # {}) =>
        LET cuts == [k \in 1..8 |-> CutPoint(k)]
        IN  \A i \in PositiveEntries :
                (\A j \in (i + 1)..Len(data) : data[j].date # data[i].date)
                    => intensityMap[data[i].date] = BucketByCutPoints(data[i].count, cuts)

----------------------------------------------------------------------------
(* C22 *)

\* the months in the order the separators pair them: path i is drawn for
\* the pair (PairedMonths[i], PairedMonths[i + 1])
PairedMonths == SortedMonths({MonthKeyOf(tz, cells[i]) : i \in 1..Len(cells)})

CellsWithKey(key) == {cells[i] : i \in {j \in 1..Len(cells) : MonthKeyOf(tz, cells[j]) = key}}

\* the cells of a set that lie in a grid row
InRow(cs, row) == {c \in cs : c.y = row * (CellSizeUsed + CellGapUsed)}

\* the stair-steps of a path: step k ends with the segment 4k + 1
StepsOf(path) == 1..((Len(path.d) - 2) \div 4)

\* the height of the transition line of a row, in half pixels
TransitionY2(row) == 2 * (dims.topMargin + row * (CellSizeUsed + CellGapUsed)) - CellGapUsed

\* the boundary x of a path beside a row, in half pixels: where the last
\* step at or above the row's transition line led, or where the path began
BoundaryX2(path, row) ==
    LET above == {k \in StepsOf(path) : path.d[4 * k + 1][3] <= TransitionY2(row)}
    IN  IF above = {} THEN path.d[1][2]
        ELSE path.d[4 * (CHOOSE k \in above : \A o \in above : o <= k) + 1][2]

\* the right and the left edge of a cell, in half pixels
RightEdge2(c) == 2 * (dims.leftMargin + c.x + CellSizeUsed)
LeftEdge2(c) == 2 * (dims.leftMargin + c.x)

\* the path lies between the columns of the two months in every row
BetweenColumns(path, prev, curr) ==
    \A row \in 0..6 :
        LET prevInRow == InRow(prev, row)
            currInRow == InRow(curr, row)
        IN  IF prevInRow = {} /\ currInRow = {}
            THEN row > 0 => BoundaryX2(path, row) = BoundaryX2(path, row - 1)
            ELSE /\ \A c \in prevInRow : RightEdge2(c) <= BoundaryX2(path, row)
                 /\ \A c \in currInRow : BoundaryX2(path, row) <= LeftEdge2(c)
                 /\ (prevInRow # {} /\ currInRow # {}) =>
                        /\ \A c \in prevInRow : \A o \in currInRow : c.x <= o.x
                        /\ MathMax({RightEdge2(c) : c \in prevInRow}) + CellGapUsed
                               = MathMin({LeftEdge2(c) : c \in currInRow}) - CellGapUsed

\* C22: for every separator path drawn for a pair (prev, curr) and every
\* grid row that has a cell of either month, the boundary x of that row
\* lies between columns: every prev-month cell of the row is entirely left
\* of it and every curr-month cell entirely right of it; in a row holding
\* cells of both months the position just right of the rightmost prev cell
\* coincides with the position just left of the leftmost curr cell; rows
\* with cells of neither month do not change the boundary.
C22_BoundaryBetweenColumns ==
    (Returned /\ Len(Paths) > 0) =>
        \A i \in 1..Len(Paths) :
            BetweenColumns(Paths[i], CellsWithKey(PairedMonths[i]), CellsWithKey(PairedMonths[i + 1]))

----------------------------------------------------------------------------
(* C23 *)

\* the rows a pair of months has cells in
ProcessedRows(prev, curr) == {row \in 0..6 : InRow(prev \cup curr, row) # {}}

\* the boundary x of a processed row by rule, in half pixels: just right of
\* the rightmost prev cell of the row, or, in a row without prev cells, just
\* left of the leftmost curr cell
RowBoundary2(prev, curr, row) ==
    IF InRow(prev, row) # {}
    THEN MathMax({RightEdge2(c) : c \in InRow(prev, row)}) + CellGapUsed
    ELSE MathMin({LeftEdge2(c) : c \in InRow(curr, row)}) - CellGapUsed

\* the processed row before a processed row
RowBefore(rows, row) == CHOOSE r \in rows : r < row /\ \A o \in rows : o < row => o <= r

\* the processed rows whose boundary differs from that of the processed row before
ChangeRows(prev, curr) ==
    {row \in ProcessedRows(prev, curr) :
        /\ \E r \in ProcessedRows(prev, curr) : r < row
        /\ RowBoundary2(prev, curr, row)
               # RowBoundary2(prev, curr, RowBefore(ProcessedRows(prev, curr), row))}

\* segments 4k - 2 .. 4k + 1 of the path are a stair-step from x = from to
\* x = to at the transition line of the row: a line down, a corner, a
\* horizontal line and the mirrored corner
IsStairStep(d, k, from, to, row) ==
    LET stepY  == TransitionY2(row)
        radius == stepY - d[4 * k - 2][3]
        dir    == IF to > from THEN 1 ELSE -1
    IN  /\ radius > 0
        /\ d[4 * k - 2] = <<"L", from, stepY - radius>>
        /\ d[4 * k - 1] = <<"Q", from, stepY, from + dir * radius, stepY>>
        /\ d[4 * k]     = <<"L", to - dir * radius, stepY>>
        /\ d[4 * k + 1] = <<"Q", to, stepY, to, stepY + radius>>

\* the path of a pair of months is the continuous path of the claim
IsStairPath(path, prev, curr) ==
    LET rows    == ProcessedRows(prev, curr)
        changes == ChangeRows(prev, curr)
        first   == CHOOSE r \in rows : \A o \in rows : r <= o
        last    == CHOOSE r \in rows : \A o \in rows : o <= r
        bottom2 == 2 * (dims.topMargin + 6 * (CellSizeUsed + CellGapUsed) + CellSizeUsed)
    IN  /\ path.d[1] = <<"M", RowBoundary2(prev, curr, first), 2 * dims.topMargin>>
        /\ \A j \in 2..Len(path.d) : path.d[j][1] # "M"
        /\ Len(path.d) = 2 + 4 * Cardinality(changes)
        /\ \A row \in changes :
              IsStairStep(path.d, Cardinality({r \in changes : r <= row}),
                          RowBoundary2(prev, curr, RowBefore(rows, row)),
                          RowBoundary2(prev, curr, row), row)
        /\ path.d[Len(path.d)] = <<"L", RowBoundary2(prev, curr, last), bottom2>>

\* C23: each separator path is one continuous path: it contains exactly one
\* move-to, at (boundary x of the first processed row, topMargin); it emits
\* one stair-step (line down, corner, horizontal line, mirrored corner)
\* exactly when the boundary x differs between two consecutive processed
\* rows, at the transition line y = topMargin + row * (cellSize + cellGap)
\* - cellGap / 2; and its last segment ends at the bottom edge of row 6,
\* y = topMargin + 6 * (cellSize + cellGap) + cellSize, at the boundary x
\* of the last processed row.
C23_ContinuousPath ==
    (Returned /\ Len(Paths) > 0) =>
        \A i \in 1..Len(Paths) :
            IsStairPath(Paths[i], CellsWithKey(PairedMonths[i]), CellsWithKey(PairedMonths[i + 1]))

\* a path with a stair-step was drawn
C23_Witness ==
    /\ Returned
    /\ \E i \in 1..Len(Paths) :
          /\ ChangeRows(CellsWithKey(PairedMonths[i]), CellsWithKey(PairedMonths[i + 1])) # {}
          /\ Len(Paths[i].d) = 6

----------------------------------------------------------------------------
(* C24 *)

TextColorUsed == Option(options, "textColor", DefaultTextColor)

\* the color ends with an alpha of 0.75 as its last component
CarriesAlpha(color) ==
    /\ Len(color) > 7
    /\ SubSeq(color, Len(color) - 6, Len(color)) = <<",", " ", "0", ".", "7", "5", ")">>

\* C24: the separator stroke color is the configured textColor at about 75%
\* opacity for every textColor value: a color starting with '#' gets the
\* alpha byte C0 appended, and every non-hex color is converted to a form
\* that carries a 0.75 alpha, so the stroke is never emitted fully opaque.
C24_StrokeOpacity ==
    Returned =>
        \A i \in 1..Len(Paths) :
            IF TextColorUsed # <<>> /\ TextColorUsed[1] = "#"
            THEN Paths[i].stroke = TextColorUsed \o <<"C", "0">>
            ELSE /\ Paths[i].stroke # TextColorUsed
                 /\ CarriesAlpha(Paths[i].stroke)

----------------------------------------------------------------------------
(* C25 *)

\* the group of an element of the document: 0 the root open tag, 1 a day
\* label, 2 a month label, 3 the rect of a cell, 4 a separator path, 5 a
\* part of the footer (its texts, and the legend squares below the grid),
\* 6 the root close tag
GroupOf(e) ==
    CASE e.tag = "svg"  -> 0
      [] e.tag = "/svg" -> 6
      [] e.tag = "path" -> 4
      [] e.tag = "rect" -> IF e.y > dims.topMargin + dims.graphHeight THEN 5 ELSE 3
      [] e.tag = "text" ->
            IF e.body \in {DAYS[k] : k \in 1..Len(DAYS)} THEN 1
            ELSE IF e.body \in MonthNames THEN 2
            ELSE 5

ElementsOfGroup(g) == {i \in 1..Len(svg) : GroupOf(svg[i]) = g}

\* C25: the document is assembled in a fixed order for every input and
\* option set: root open tag, then day labels (only if showDayLabels), then
\* month labels (only if showMonthLabels), then one rect per cell (always),
\* then month separator paths, then the footer (only if showFooter), then
\* the root close tag; no fragment of a later group precedes a fragment of
\* an earlier group.
C25_FixedOrder ==
    Returned =>
        /\ ElementsOfGroup(0) = {1}
        /\ ElementsOfGroup(6) = {Len(svg)}
        /\ \A i, j \in 1..Len(svg) : i < j => GroupOf(svg[i]) <= GroupOf(svg[j])
        /\ (ElementsOfGroup(1) # {}) = ShowDayLabelsUsed
        /\ ElementsOfGroup(2) # {} => ShowMonthLabelsUsed
        /\ Cardinality(ElementsOfGroup(3)) = Len(cells)
        /\ (ElementsOfGroup(5) # {}) = ShowFooterUsed

\* a document with a fragment of every group
C25_Witness ==
    /\ Returned
    /\ \A g \in 0..6 : ElementsOfGroup(g) # {}

----------------------------------------------------------------------------
(* C26 *)

\* the month key of the calendar month after the month of a key
KeyAfter(key) == IF key[2] = 11 THEN <<key[1] + 1, 0>> ELSE <<key[1], key[2] + 1>>

\* the paths drawn for a pair of chronologically consecutive months
ConsecutivePairs == {i \in 1..Len(Paths) : PairedMonths[i + 1] = KeyAfter(PairedMonths[i])}

\* the month of a key begins on a Sunday
BeginsOnSunday(key) == WeekdayOf(<<key[1], key[2] + 1, 1>>) = 0

\* the boundary positions a pair of months shows in its rows, by rule
ObservedBoundaries(prev, curr) ==
    {RowBoundary2(prev, curr, row) : row \in ProcessedRows(prev, curr)}

\* the path steps leftwards at most once, by one column width
IsMonotoneBoundary(path, prev, curr, laterKey) ==
    LET positions == {BoundaryX2(path, row) : row \in 0..6}
    IN  /\ \A r, s \in 0..6 : r < s => BoundaryX2(path, r) >= BoundaryX2(path, s)
        /\ Cardinality(positions) <= 2
        /\ Cardinality(positions) = 2 =>
               MathMax(positions) - MathMin(positions) = 2 * (CellSizeUsed + CellGapUsed)
        /\ Cardinality(StepsOf(path)) <= 1
        /\ StepsOf(path) # {} => path.d[5][2] < path.d[1][2]
        /\ (StepsOf(path) = {}) =
               (BeginsOnSunday(laterKey) \/ Cardinality(ObservedBoundaries(prev, curr)) = 1)

\* C26: for a pair of chronologically consecutive months of the grid, the
\* boundary x of the separator as a function of the row, top to bottom, is
\* non-increasing and takes at most two values, which differ by exactly one
\* column width cellSize + cellGap; the path has at most one stair-step, the
\* step goes leftwards, and it is absent exactly when the later month begins
\* on a Sunday or only one boundary position is observed.
C26_OneLeftwardStep ==
    Returned =>
        \A i \in ConsecutivePairs :
            IsMonotoneBoundary(Paths[i], CellsWithKey(PairedMonths[i]),
                               CellsWithKey(PairedMonths[i + 1]), PairedMonths[i + 1])

\* a separator of consecutive months with a leftward step, and one without
\* a step whose later month begins on a Sunday
C26_Witness ==
    /\ Returned
    /\ \E i \in ConsecutivePairs : StepsOf(Paths[i]) # {} /\ ~BeginsOnSunday(PairedMonths[i + 1])
    /\ \E i \in ConsecutivePairs : StepsOf(Paths[i]) = {} /\ BeginsOnSunday(PairedMonths[i + 1])

----------------------------------------------------------------------------
(* C27 *)

\* the grid of the call is the grid the same call has in a process under UTC
SameGridAsUnderUTC ==
    cells = GenerateCells(processedData, intensityMap, CellSizeUsed, CellGapUsed, "UTC")

\* every cell lies in the row of the day of the week of its own date
RowsOfOwnDates ==
    \A i \in 1..Len(cells) : cells[i].y = WeekdayOf(cells[i].date) * (CellSizeUsed + CellGapUsed)

\* the cells are the dates from the first to the last, one each, day by day
OneCellPerDate ==
    \A i \in 1..(Len(cells) - 1) : cells[i + 1].date = NextDay(cells[i].date)

\* C27: the grid layout does not depend on the local time zone of the
\* process: for every local UTC offset, zones with daylight-saving
\* transitions inside the date range included, generateCells yields the cell
\* list it yields under UTC, one cell per date string, each in the row of
\* the day of the week of its own date.
C27_ZoneIndependentGrid ==
    Returned => (SameGridAsUnderUTC /\ RowsOfOwnDates /\ OneCellPerDate)

----------------------------------------------------------------------------
(* C28 *)

\* the response was taken from the cache
ServedFromCache == stage = "done" /\ response.from = "cache"

\* the database function behind a JSON route
FunctionOfRoute(path) ==
    CASE path = "/history" -> "getCommandsPerDay"
      [] path = "/time-of-day" -> "getTimeOfDayStats"
      [] OTHER -> "getStats"

\* the body is the one the handler of the request computes for the request
IsOwnBody(body) ==
    \E got \in {GetPeriodFromContext(request.query, timezone, now)} :
        /\ got.kind = "period"
        /\ request.path # "/graph.svg" =>
              body = JsonBody(FunctionOfRoute(request.path), got.period)

\* C28: a response served through the cache middleware is always the one
\* the handler of the request would compute: a request never receives from
\* the cache a body that was computed for another request to the same URL
\* whose Prefer header resolved to a different time zone (and hence to a
\* different Period).
C28_CacheServesOwnResponse == ServedFromCache => IsOwnBody(response.body)

----------------------------------------------------------------------------
(* C29 *)

Completed(call) == call.phase \in {"resolved", "rejected"}

\* the calls that hold a client: acquired and not released
CheckedOut == {i \in 1..Len(calls) : calls[i].acquired > calls[i].released}

\* C29: in getCommandsPerDay, getStats and getTimeOfDayStats every client
\* acquired from the pool is released exactly once, whether the query
\* succeeds or throws: a completed call has released once if it acquired a
\* client and never otherwise, no call releases more often than it
\* acquired, and once all calls have completed (normally or with an error)
\* no client remains checked out and the pool of the running process holds
\* all its clients again.
C29_ReleasedExactlyOnce ==
    /\ \A i \in 1..Len(calls) :
          /\ calls[i].released <= calls[i].acquired
          /\ calls[i].acquired <= 1
          /\ Completed(calls[i]) => calls[i].released = calls[i].acquired
    /\ Running => pool.available + Cardinality(CheckedOut) = pool.size
    /\ (\A i \in 1..Len(calls) : Completed(calls[i])) =>
          /\ CheckedOut = {}
          /\ Running => pool.available = pool.size

\* all calls of the behavior have completed in the running process, one
\* with rows, one with the error of its query and one without a client
C29_Witness ==
    /\ Running
    /\ Len(calls) = MaxQueryCalls
    /\ \A i \in 1..Len(calls) : Completed(calls[i])
    /\ \E i \in 1..Len(calls) : calls[i].phase = "resolved" /\ calls[i].released = 1
    /\ \E i \in 1..Len(calls) : calls[i].phase = "rejected" /\ calls[i].released = 1
    /\ \E i \in 1..Len(calls) : calls[i].phase = "rejected" /\ calls[i].acquired = 0
    /\ pool.available = PoolSize

----------------------------------------------------------------------------
(* C30 *)

\* the process has exited only after a closePool() settled, with code 0
\* when it succeeded and code 1 when it threw
ExitsAfterClosePool ==
    exit # <<>> =>
        /\ closing > 0
        /\ exit[1].code = (IF exit[1].closePool = "closed" THEN 0 ELSE 1)
        /\ pool.ended = (exit[1].closePool = "closed")

\* closePool() was called at most once
ClosedAtMostOnce == closing <= 1

\* no call obtains its client and starts its query on an ended pool
NoQueryOnEndedPool ==
    pool.ended =>
        \A i \in 1..Len(calls) : calls'[i].phase = "querying" => calls[i].phase = "querying"

\* C30: after SIGINT or SIGTERM the shutdown handler closes the pool and the
\* process exits only after closePool has settled, with exit code 0 when it
\* succeeded and 1 when it threw; the pool is closed at most once even if
\* several signals arrive; and no database query is started on the pool
\* after it has been closed.
C30_GracefulShutdown ==
    /\ [](ExitsAfterClosePool /\ ClosedAtMostOnce)
    /\ [][NoQueryOnEndedPool]_vars

====
